---- MODULE Spec2Model ----
(***************************************************************************)
(* Rule-resolution and execution engine of the ASF tape validator          *)
(* (asf_validator/engine.py, rules/registry.py, rules/asf_validations.py,  *)
(* util.py).  Strings are TLA+ strings processed character by character,   *)
(* cell values are tagged records, and run_validations is a state machine  *)
(* that advances one registry entry per step.                              *)
(***************************************************************************)
EXTENDS Integers, Sequences, FiniteSets, TLC

(***************************************************************************)
(* Character and string primitives (Python str / re semantics, ASCII).     *)
(***************************************************************************)
UpperChars == "ABCDEFGHIJKLMNOPQRSTUVWXYZ"
LowerChars == "abcdefghijklmnopqrstuvwxyz"
DigitChars == "0123456789"

CharAt(s, i) == SubSeq(s, i, i)

\* A Python list: the sequence f with its elements computed once, when the
\* list is built
List(f) == f \o <<>>

RECURSIVE IndexOf(_, _, _)
IndexOf(c, s, i) ==
    IF i > Len(s) THEN 0
    ELSE IF CharAt(s, i) = c THEN i
    ELSE IndexOf(c, s, i + 1)

\* the characters of s, as a set
Chars(s) == {CharAt(s, i) : i \in 1..Len(s)}

DigitSet == Chars(DigitChars)
UpperSet == Chars(UpperChars)

\* the character class [0-9A-Za-z]
AlnumChars == DigitSet \cup Chars(LowerChars) \cup UpperSet

IsDigit(c) == c \in DigitSet
IsAlnum(c) == c \in AlnumChars
IsSpace(c) == c \in {" ", "\t", "\n", "\r"}

ToLowerChar(c) ==
    IF c \in UpperSet
    THEN CharAt(LowerChars, IndexOf(c, UpperChars, 1))
    ELSE c

\* str.lower()
RECURSIVE StrLower(_)
StrLower(s) ==
    IF s = "" THEN "" ELSE ToLowerChar(Head(s)) \o StrLower(Tail(s))

\* str.strip(): whitespace removed from both ends
RECURSIVE LStripSpace(_)
LStripSpace(s) ==
    IF s = "" THEN ""
    ELSE IF IsSpace(Head(s)) THEN LStripSpace(Tail(s)) ELSE s

RECURSIVE RStripSpace(_)
RStripSpace(s) ==
    IF s = "" THEN ""
    ELSE IF IsSpace(CharAt(s, Len(s))) THEN RStripSpace(SubSeq(s, 1, Len(s) - 1))
    ELSE s

StrStrip(s) == RStripSpace(LStripSpace(s))

\* str.strip("_")
RECURSIVE LStripUnderscore(_)
LStripUnderscore(s) ==
    IF s = "" THEN ""
    ELSE IF Head(s) = "_" THEN LStripUnderscore(Tail(s)) ELSE s

RECURSIVE RStripUnderscore(_)
RStripUnderscore(s) ==
    IF s = "" THEN ""
    ELSE IF CharAt(s, Len(s)) = "_" THEN RStripUnderscore(SubSeq(s, 1, Len(s) - 1))
    ELSE s

StripUnderscore(s) == RStripUnderscore(LStripUnderscore(s))

\* re.sub(r"[^0-9A-Za-z]+", "_", s): every maximal run of non-alphanumeric
\* characters becomes one underscore.  inRun: the previous character was
\* part of a run that has already produced its underscore.
RECURSIVE SubNonAlnum(_, _)
SubNonAlnum(s, inRun) ==
    IF s = "" THEN ""
    ELSE IF IsAlnum(Head(s)) THEN Head(s) \o SubNonAlnum(Tail(s), FALSE)
    ELSE IF inRun THEN SubNonAlnum(Tail(s), TRUE)
    ELSE "_" \o SubNonAlnum(Tail(s), TRUE)

\* re.sub(r"_+", "_", s)
RECURSIVE CollapseUnderscores(_, _)
CollapseUnderscores(s, inRun) ==
    IF s = "" THEN ""
    ELSE IF Head(s) # "_" THEN Head(s) \o CollapseUnderscores(Tail(s), FALSE)
    ELSE IF inRun THEN CollapseUnderscores(Tail(s), TRUE)
    ELSE "_" \o CollapseUnderscores(Tail(s), TRUE)

\* Faulty variant of normalize_columns: the underscores at the ends stay
normalize_columns_unstripped(col) ==
    CollapseUnderscores(SubNonAlnum(StrLower(StrStrip(col)), FALSE), FALSE)

\* util.normalize_columns, for one column
normalize_columns(col) ==
    LET cleaned1 == SubNonAlnum(StrLower(StrStrip(col)), FALSE)
        cleaned2 == StripUnderscore(cleaned1)
    IN  CollapseUnderscores(cleaned2, FALSE)

\* engine._normalize_name: normalize_columns([name])[0]
_normalize_name(name) == normalize_columns(name)

\* str.split("_"): the tokens between underscores, empty tokens included
RECURSIVE SplitUnderscore(_, _)
SplitUnderscore(s, cur) ==
    IF s = "" THEN <<cur>>
    ELSE IF Head(s) = "_" THEN <<cur>> \o SplitUnderscore(Tail(s), "")
    ELSE SplitUnderscore(Tail(s), cur \o Head(s))

\* "".join(tokens)
RECURSIVE JoinTokens(_)
JoinTokens(tokens) ==
    IF tokens = <<>> THEN "" ELSE Head(tokens) \o JoinTokens(Tail(tokens))

\* sep.join(items)
RECURSIVE JoinWith(_, _)
JoinWith(items, sep) ==
    IF items = <<>> THEN ""
    ELSE IF Len(items) = 1 THEN items[1]
    ELSE items[1] \o sep \o JoinWith(Tail(items), sep)

(***************************************************************************)
(* Engine configuration tables.                                            *)
(***************************************************************************)
_PARAM_ALIASES ==
    [k \in {"pbw", "cbw", "pbo", "cbo", "abti", "abw", "total_borrowers",
            "b1_len_emp", "b2_len_emp", "b1_emp_ver", "b2_emp_ver",
            "application_date", "percent_down_payment", "cap_up", "cap_down",
            "first_payment_date", "junior_drawn_amount",
            "lifetime_max_rate_ceiling", "lifetime_min_rate_floor",
            "borrower_fico_score"} |->
        CASE k = "pbw" -> "primary_borrower_wage_income"
          [] k = "cbw" -> "co_borrower_wage_income"
          [] k = "pbo" -> "primary_borrower_other_income"
          [] k = "cbo" -> "co_borrower_other_income"
          [] k = "abti" -> "all_borrower_total_income"
          [] k = "abw" -> "all_borrower_wage_income"
          [] k = "total_borrowers" -> "total_number_of_borrowers"
          [] k = "b1_len_emp" -> "length_of_employment_borrower"
          [] k = "b2_len_emp" -> "length_of_employment_co_borrower"
          [] k = "b1_emp_ver" -> "borrower_employment_verification"
          [] k = "b2_emp_ver" -> "co_borrower_employment_verification"
          [] k = "application_date" -> "application_received_date"
          [] k = "percent_down_payment" ->
                 "percentage_of_down_payment_from_borrower_own_funds"
          [] k = "cap_up" -> "initial_interest_rate_cap_change_up"
          [] k = "cap_down" -> "initial_interest_rate_cap_change_down"
          [] k = "first_payment_date" -> "first_payment_date_of_loan"
          [] k = "junior_drawn_amount" -> "junior_mortgage_drawn_amount"
          [] k = "lifetime_max_rate_ceiling" -> "lifetime_maximum_rate_ceiling"
          [] k = "lifetime_min_rate_floor" -> "lifetime_minimum_rate_floor"
          [] k = "borrower_fico_score" -> "original_primary_borrower_fico"]

_ALLOW_MISSING_PARAM_RULES ==
    {"validate_arm_fields_populated_for_fixed_rate",
     "validate_arm_fields_required_for_adjustable_rate",
     "validate_missing_required_fields",
     "validate_most_recent_fico_recency"}

_WARNING_RULES ==
    {"validate_margin_less_than_floor",
     "validate_negative_incomes",
     "validate_refi_with_less_than_1_year_in_home",
     "validate_appraised_value_over_8000000",
     "validate_total_number_of_borrowers_over_4"}

\* Faulty variant of is_warning: every rule has the default severity
is_warning_never(rule_name) == FALSE

\* run_validations, line 140: the severity of a rule, by its name
is_warning(rule_name) == rule_name \in _WARNING_RULES

_CANONICAL_REPLACEMENTS ==
    [k \in {"yrs", "yr", "pct", "num", "nbr", "amt"} |->
        CASE k = "yrs" -> "years"
          [] k = "yr" -> "year"
          [] k = "pct" -> "percent"
          [] k = "num" -> "number"
          [] k = "nbr" -> "number"
          [] k = "amt" -> "amount"]

_STOPWORDS == {"of", "the", "and", "or", "at", "in", "for", "to", "from"}

\* dict.get(key, default)
DictGet(d, key, default) == IF key \in DOMAIN d THEN d[key] ELSE default

(***************************************************************************)
(* Column normalizer and resolver.                                         *)
(***************************************************************************)
\* Faulty variant of CanonicalTokens: a token the abbreviation table does
\* not know is dropped
RECURSIVE CanonicalTokens_known_only(_)
CanonicalTokens_known_only(tokens) ==
    IF tokens = <<>> THEN <<>>
    ELSE LET token == Head(tokens)
         IN  IF token \notin DOMAIN _CANONICAL_REPLACEMENTS
             THEN CanonicalTokens_known_only(Tail(tokens))
             ELSE <<_CANONICAL_REPLACEMENTS[token]>>
                      \o CanonicalTokens_known_only(Tail(tokens))

\* the loop of engine._canonical_key over the tokens
RECURSIVE CanonicalTokens(_)
CanonicalTokens(tokens) ==
    IF tokens = <<>> THEN <<>>
    ELSE LET token == Head(tokens)
         IN  IF token = "" \/ token \in _STOPWORDS
             THEN CanonicalTokens(Tail(tokens))
             ELSE <<DictGet(_CANONICAL_REPLACEMENTS, token, token)>>
                      \o CanonicalTokens(Tail(tokens))

\* engine._canonical_key
_canonical_key(name) ==
    JoinTokens(CanonicalTokens(SplitUnderscore(_normalize_name(name), "")))

\* Faulty variant of _build_column_maps: a key keeps the last of its columns
\* only
_build_column_maps_last_only(cols) ==
    [normalized_map |->
        [k \in {_normalize_name(cols[i]) : i \in 1..Len(cols)} |->
            LET own == SelectSeq(cols, LAMBDA col : _normalize_name(col) = k)
            IN  <<own[Len(own)]>>],
     canonical_map |->
        [k \in {_canonical_key(cols[i]) : i \in 1..Len(cols)} |->
            LET own == SelectSeq(cols, LAMBDA col : _canonical_key(col) = k)
            IN  <<own[Len(own)]>>]]

\* engine._build_column_maps: (normalized_map, canonical_map).  Each key maps
\* to the columns producing it, in tape column order (the list that
\* dict.setdefault(key, []).append(col) builds).
_build_column_maps(cols) ==
    [normalized_map |->
        [k \in {_normalize_name(cols[i]) : i \in 1..Len(cols)} |->
            SelectSeq(cols, LAMBDA col : _normalize_name(col) = k)],
     canonical_map |->
        [k \in {_canonical_key(cols[i]) : i \in 1..Len(cols)} |->
            SelectSeq(cols, LAMBDA col : _canonical_key(col) = k)]]

\* Python None, as a resolution result
Unresolved == "<None>"

\* Faulty variant of _resolve_column_name: the canonical map is consulted
\* first
_resolve_column_name_canonical_first(name, normalized_map, canonical_map) ==
    LET normalized == _normalize_name(name)
        canonical == _canonical_key(name)
    IN  IF canonical \in DOMAIN canonical_map
        THEN canonical_map[canonical][1]
        ELSE IF normalized \in DOMAIN normalized_map
        THEN normalized_map[normalized][1]
        ELSE Unresolved

\* engine._resolve_column_name
_resolve_column_name(name, normalized_map, canonical_map) ==
    LET normalized == _normalize_name(name)
        canonical == _canonical_key(name)
    IN  IF normalized \in DOMAIN normalized_map
        THEN normalized_map[normalized][1]
        ELSE IF canonical \in DOMAIN canonical_map
        THEN canonical_map[canonical][1]
        ELSE Unresolved

\* Faulty variant of _resolve_param_name: the alias map is not consulted
_resolve_param_name_no_alias(param_name, normalized_map, canonical_map) ==
    _resolve_column_name(param_name, normalized_map, canonical_map)

\* Faulty variant of _resolve_param_name: the name itself is tried when its
\* alias resolves to no column
_resolve_param_name_raw_fallback(param_name, normalized_map, canonical_map) ==
    LET alias == DictGet(_PARAM_ALIASES, param_name, param_name)
        by_alias == _resolve_column_name(alias, normalized_map, canonical_map)
    IN  IF by_alias # Unresolved THEN by_alias
        ELSE _resolve_column_name(param_name, normalized_map, canonical_map)

\* engine._resolve_param_name
_resolve_param_name(param_name, normalized_map, canonical_map) ==
    LET alias == DictGet(_PARAM_ALIASES, param_name, param_name)
    IN  _resolve_column_name(alias, normalized_map, canonical_map)

(***************************************************************************)
(* Cell values and the Python operations the rule predicates apply.        *)
(***************************************************************************)
PyNone == [kind |-> "none", n |-> 0, s |-> ""]
PyNaN == [kind |-> "nan", n |-> 0, s |-> ""]
Num(i) == [kind |-> "num", n |-> i, s |-> ""]
Str(t) == [kind |-> "str", n |-> 0, s |-> t]

\* a failed conversion (TypeError / ValueError)
Failed == [ok |-> FALSE, nan |-> FALSE, n |-> 0]
Number(i) == [ok |-> TRUE, nan |-> FALSE, n |-> i]
NotANumber == [ok |-> TRUE, nan |-> TRUE, n |-> 0]

RECURSIVE AllDigits(_)
AllDigits(s) == s = "" \/ (IsDigit(Head(s)) /\ AllDigits(Tail(s)))

RECURSIVE DigitsValue(_, _)
DigitsValue(s, acc) ==
    IF s = "" THEN acc
    ELSE DigitsValue(Tail(s), 10 * acc + (IndexOf(Head(s), DigitChars, 1) - 1))

\* float(text) / int(text) for the text values of the model: surrounding
\* whitespace is ignored, an unsigned digit string converts, anything else
\* raises ValueError
ParseText(t) ==
    LET body == StrStrip(t)
    IN  IF body # "" /\ AllDigits(body) THEN Number(DigitsValue(body, 0))
        ELSE Failed

\* float(value)
PyFloat(v) ==
    CASE v.kind = "num" -> Number(v.n)
      [] v.kind = "nan" -> NotANumber
      [] v.kind = "str" -> ParseText(v.s)
      [] OTHER -> Failed

\* int(value); int(float("nan")) raises ValueError
PyInt(v) ==
    CASE v.kind = "num" -> Number(v.n)
      [] v.kind = "str" -> ParseText(v.s)
      [] OTHER -> Failed

\* pd.isna(value), for scalars
PdIsNa(v) == v.kind \in {"none", "nan"}

\* value in ["", None]
InEmptyOrNone(v) == v.kind = "none" \/ (v.kind = "str" /\ v.s = "")

\* Faulty variant of _is_blank: the text is not trimmed
_is_blank_untrimmed(value) ==
    IF value.kind = "none" THEN TRUE
    ELSE IF PdIsNa(value) THEN TRUE
    ELSE IF value.kind = "str" THEN value.s = ""
    ELSE FALSE

\* asf_validations._is_blank
_is_blank(value) ==
    IF value.kind = "none" THEN TRUE
    ELSE IF PdIsNa(value) THEN TRUE
    ELSE IF value.kind = "str" THEN StrStrip(value.s) = ""
    ELSE FALSE

(***************************************************************************)
(* The rule predicates.  Each returns "True" or "False", or "Raise" when   *)
(* an exception leaves the function.                                       *)
(***************************************************************************)
PyBool(b) == IF b THEN "True" ELSE "False"

\* asf_validations.validate_missing_required_fields
validate_missing_required_fields(values) ==
    PyBool(\E i \in 1..Len(values) : _is_blank(values[i]))

\* asf_validations.validate_borrower_fico_at_or_below_660
validate_borrower_fico_at_or_below_660(values) ==
    LET borrower_fico_score == values[1]
    IN  CASE borrower_fico_score.kind = "num" ->
                 PyBool(borrower_fico_score.n <= 660)
          [] borrower_fico_score.kind = "nan" -> "False"
          [] OTHER -> "True"    \* TypeError, caught by the bare except

\* asf_validations.validate_channel (no try block)
validate_channel(values) ==
    LET channel == PyInt(values[1])
    IN  IF ~channel.ok THEN "Raise"
        ELSE PyBool(channel.n \notin {1, 2, 5})

\* Faulty variant of validate_purpose_id_vs_sales_price: a loan purpose that
\* is no integer is not flagged
validate_purpose_id_vs_sales_price_lenient(values) ==
    LET loan_purpose == values[1]
        sales_price == values[2]
        lp == PyInt(loan_purpose)
        sp_blank ==
            \/ InEmptyOrNone(sales_price)
            \/ (sales_price.kind = "num" /\ sales_price.n = 0)
            \/ PdIsNa(sales_price)
    IN  IF ~lp.ok THEN "False"
        ELSE IF lp.n \in {6, 7} /\ sp_blank THEN "True"
        ELSE IF lp.n \notin {6, 7} /\ ~sp_blank THEN "True"
        ELSE "False"

\* asf_validations.validate_purpose_id_vs_sales_price
validate_purpose_id_vs_sales_price(values) ==
    LET loan_purpose == values[1]
        sales_price == values[2]
        lp == PyInt(loan_purpose)
        sp_blank ==
            \/ InEmptyOrNone(sales_price)
            \/ (sales_price.kind = "num" /\ sales_price.n = 0)
            \/ PdIsNa(sales_price)
        sp_present == ~sp_blank
    IN  IF ~lp.ok THEN "True"
        ELSE IF lp.n \in {6, 7} /\ sp_blank THEN "True"
        ELSE IF lp.n \notin {6, 7} /\ sp_present THEN "True"
        ELSE "False"

\* asf_validations.validate_total_number_of_borrowers_over_4
validate_total_number_of_borrowers_over_4(values) ==
    LET total_number_of_borrowers == values[1]
        f == PyFloat(total_number_of_borrowers)
    IN  IF InEmptyOrNone(total_number_of_borrowers) THEN "False"
        ELSE IF ~f.ok THEN "False"    \* except: return False
        ELSE PyBool(~f.nan /\ f.n > 4)

\* asf_validations.validate_negative_incomes: any() walks the incomes in
\* order and stops at the first negative one; a failing float() is caught
\* by the bare except
RECURSIVE validate_negative_incomes(_)
validate_negative_incomes(incomes) ==
    IF incomes = <<>> THEN "False"
    ELSE LET val == Head(incomes)
             f == PyFloat(val)
         IN  IF InEmptyOrNone(val) THEN validate_negative_incomes(Tail(incomes))
             ELSE IF ~f.ok THEN "True"
             ELSE IF ~f.nan /\ f.n < 0 THEN "True"
             ELSE validate_negative_incomes(Tail(incomes))

\* asf_validations.validate_amort_term_gt_term_to_maturity
validate_amort_term_gt_term_to_maturity(values) ==
    LET original_amortization_term == PyFloat(values[1])
        original_term_to_maturity == PyFloat(values[2])
    IN  IF ~original_amortization_term.ok THEN "True"
        ELSE IF ~original_term_to_maturity.ok THEN "True"
        ELSE IF original_amortization_term.nan \/ original_term_to_maturity.nan
        THEN "True"    \* nan != x
        ELSE PyBool(original_amortization_term.n # original_term_to_maturity.n)

\* asf_validations.validate_arm_fields_required_for_adjustable_rate
validate_arm_fields_required_for_adjustable_rate(values) ==
    LET amortization_type == values[1]
        fields == Tail(values)
        f == PyFloat(amortization_type)
    IN  IF InEmptyOrNone(amortization_type) THEN "False"
        ELSE IF PdIsNa(amortization_type) THEN "False"
        ELSE IF ~f.ok THEN "True"
        ELSE IF f.n # 2 THEN "False"
        ELSE PyBool(\E i \in 1..Len(fields) : _is_blank(fields[i]))

(***************************************************************************)
(* The rule catalogue: the rules module as the registry and                *)
(* inspect.signature see it.                                               *)
(***************************************************************************)
\* Bounds of the model
MaxParams == 5     \* declared parameters modelled per rule (a prefix)
MaxRows == 2       \* rows of a tape
MaxEvents == 1     \* exceptions / signals the environment injects per run

Min(a, b) == IF a <= b THEN a ELSE b
Prefix(seq, k) == SubSeq(seq, 1, Min(k, Len(seq)))

StartsWith(s, prefix) ==
    Len(s) >= Len(prefix) /\ SubSeq(s, 1, Len(prefix)) = prefix

\* the declared parameters of validate_missing_required_fields
MISSING_REQUIRED_PARAMS ==
    <<"originator_doc_code", "primary_servicer", "servicing_fee",
      "originator", "loan_number", "amortization_type", "lien_position",
      "heloc_indicator", "loan_purpose", "cash_out_amount", "channel",
      "escrow_indicator", "origination_date", "original_loan_amount",
      "original_interest_rate", "original_amortization_term",
      "original_term_to_maturity", "first_payment_date_of_loan",
      "interest_type_indicator", "current_loan_amount",
      "current_interest_rate", "current_payment_amount_due",
      "interest_paid_through_date", "current_payment_status",
      "primary_borrower_id", "number_of_mortgaged_properties",
      "total_number_of_borrowers", "self_employment_flag",
      "current_other_monthly_payment", "length_of_employment_borrower",
      "years_in_home", "fico_model_used", "original_primary_borrower_fico",
      "most_recent_12_month_pay_history", "primary_borrower_wage_income",
      "co_borrower_wage_income", "primary_borrower_other_income",
      "co_borrower_other_income", "all_borrower_wage_income",
      "all_borrower_total_income", "_4506_t_indicator",
      "borrower_income_verification_level",
      "borrower_employment_verification", "borrower_asset_verification",
      "liquid_cash_reserves", "monthly_debt_all_borrowers",
      "originator_dti",
      "percentage_of_down_payment_from_borrower_own_funds", "city", "state",
      "postal_code", "property_type", "occupancy",
      "original_appraised_property_value",
      "original_property_valuation_type",
      "original_property_valuation_date", "original_cltv", "original_ltv",
      "borrower_years_in_industry", "coborrower_years_in_industry",
      "maturity_date", "loan_type_ls", "atrqm_status",
      "application_received_date", "dd_firm", "dd_review_type">>

\* the declared parameters of validate_arm_fields_required_for_adjustable_rate
ARM_REQUIRED_PARAMS ==
    <<"amortization_type", "arm_look_back_days", "gross_margin",
      "arm_round_flag", "arm_round_factor", "index_type",
      "initial_fixed_rate_period", "initial_interest_rate_cap_change_up",
      "initial_interest_rate_cap_change_down",
      "subsequent_interest_rate_reset_period",
      "subsequent_interest_rate_cap_change_down",
      "subsequent_interest_rate_cap_change_up", "lifetime_max_rate_ceiling",
      "lifetime_min_rate_floor", "negative_amortization_limit",
      "initial_negative_amortization_recast_period",
      "subsequent_negative_amortization_recast_period",
      "initial_fixed_payment_period", "subsequent_payment_reset_period",
      "initial_periodic_payment_cap", "subsequent_periodic_payment_cap",
      "initial_minimum_payment_reset_period",
      "subsequent_minimum_payment_reset_period", "option_arm_indicator">>

\* The callables the rules module defines, in definition order (the order
\* of globals()), each with what inspect.signature reports and with what
\* its own outermost handler returns when something is raised inside the
\* body: "True" / "False" for a bare "except:" around the whole body,
\* "Raise" when the body has no handler.
ModuleFunctions ==
    <<[name |-> "_is_blank", params |-> <<"value">>, varargs |-> "",
       on_except |-> "Raise"],
      [name |-> "validate_missing_required_fields",
       params |-> Prefix(MISSING_REQUIRED_PARAMS, MaxParams), varargs |-> "",
       on_except |-> "Raise"],
      [name |-> "validate_borrower_fico_at_or_below_660",
       params |-> <<"borrower_fico_score">>, varargs |-> "",
       on_except |-> "True"],
      [name |-> "validate_channel", params |-> <<"channel">>, varargs |-> "",
       on_except |-> "Raise"],
      [name |-> "pmt", params |-> <<"rate", "nper", "pv">>, varargs |-> "",
       on_except |-> "Raise"],
      [name |-> "validate_purpose_id_vs_sales_price",
       params |-> <<"loan_purpose", "sales_price">>, varargs |-> "",
       on_except |-> "True"],
      [name |-> "validate_total_number_of_borrowers_over_4",
       params |-> <<"total_number_of_borrowers">>, varargs |-> "",
       on_except |-> "False"],
      [name |-> "validate_negative_incomes", params |-> <<>>,
       varargs |-> "incomes", on_except |-> "True"],
      [name |-> "validate_amort_term_gt_term_to_maturity",
       params |-> <<"original_amortization_term", "original_term_to_maturity">>,
       varargs |-> "", on_except |-> "True"],
      [name |-> "validate_arm_fields_required_for_adjustable_rate",
       params |-> Prefix(ARM_REQUIRED_PARAMS, MaxParams), varargs |-> "",
       on_except |-> "True"]>>

FunctionNamed(name) ==
    ModuleFunctions[CHOOSE i \in 1..Len(ModuleFunctions) :
                        ModuleFunctions[i].name = name]

\* asf_validations.__all__: the validate_ callables in definition order,
\* then "pmt"
__all__ ==
    LET names == List([i \in 1..Len(ModuleFunctions) |->
                          ModuleFunctions[i].name])
    IN  SelectSeq(names, LAMBDA name : StartsWith(name, "validate_"))
            \o <<"pmt">>

\* The characters of names, in code point order, for str comparison
AsciiChars ==
    " -0123456789ABCDEFGHIJKLMNOPQRSTUVWXYZ_abcdefghijklmnopqrstuvwxyz"

\* a < b for Python str
RECURSIVE StrLess(_, _)
StrLess(a, b) ==
    IF b = "" THEN FALSE
    ELSE IF a = "" THEN TRUE
    ELSE IF Head(a) = Head(b) THEN StrLess(Tail(a), Tail(b))
    ELSE IndexOf(Head(a), AsciiChars, 1) < IndexOf(Head(b), AsciiChars, 1)

\* sorted(names)
RECURSIVE InsertSorted(_, _)
InsertSorted(name, sorted) ==
    IF sorted = <<>> THEN <<name>>
    ELSE IF StrLess(name, Head(sorted)) THEN <<name>> \o sorted
    ELSE <<Head(sorted)>> \o InsertSorted(name, Tail(sorted))

RECURSIVE SortedNames(_)
SortedNames(names) ==
    IF names = <<>> THEN <<>>
    ELSE InsertSorted(Head(names), SortedNames(Tail(names)))

\* Faulty variant of get_validations_registry: every name of __all__ is a
\* rule
get_validations_registry_all_exports == SortedNames(__all__)

\* Faulty variant of get_validations_registry: the registry keeps the
\* order of __all__
get_validations_registry_unsorted ==
    SelectSeq(__all__, LAMBDA name : StartsWith(name, "validate_"))

\* registry.get_validations_registry: the rule names, in iteration order
get_validations_registry ==
    SortedNames(SelectSeq(__all__, LAMBDA name : StartsWith(name, "validate_")))

_VARARGS_RULE_COLUMNS ==
    [k \in {"validate_negative_incomes"} |->
        <<"primary_borrower_wage_income", "co_borrower_wage_income",
          "primary_borrower_other_income", "co_borrower_other_income",
          "all_borrower_wage_income", "all_borrower_total_income">>]

\* func(*values): what leaves the call when nothing interferes
Invoke(name, values) ==
    CASE name = "validate_missing_required_fields" ->
             validate_missing_required_fields(values)
      [] name = "validate_borrower_fico_at_or_below_660" ->
             validate_borrower_fico_at_or_below_660(values)
      [] name = "validate_channel" -> validate_channel(values)
      [] name = "validate_purpose_id_vs_sales_price" ->
             validate_purpose_id_vs_sales_price(values)
      [] name = "validate_total_number_of_borrowers_over_4" ->
             validate_total_number_of_borrowers_over_4(values)
      [] name = "validate_negative_incomes" -> validate_negative_incomes(values)
      [] name = "validate_amort_term_gt_term_to_maturity" ->
             validate_amort_term_gt_term_to_maturity(values)
      [] name = "validate_arm_fields_required_for_adjustable_rate" ->
             validate_arm_fields_required_for_adjustable_rate(values)

\* What the environment can raise inside a predicate call: an ordinary
\* exception (for instance MemoryError), the debugger-quit exception
\* bdb.BdbQuit, or KeyboardInterrupt.
EventKinds == {"Exception", "BdbQuit", "KeyboardInterrupt"}

\* func(*values) when the environment raises `kind` inside the body
\* ("none": no interference).  A bare "except:" around the body catches
\* everything, KeyboardInterrupt and BdbQuit included, and returns the
\* handler's value; without one the exception leaves the function.
CallOutcome(name, values, kind) ==
    IF kind = "none" THEN Invoke(name, values)
    ELSE IF FunctionNamed(name).on_except # "Raise"
    THEN FunctionNamed(name).on_except
    ELSE IF kind = "Exception" THEN "Raise"
    ELSE kind

(***************************************************************************)
(* The tape and the state of one run of engine.run_validations.            *)
(***************************************************************************)
VARIABLES
    columns,                  \* tape_df.columns
    index,                    \* tape_df.index: the label of each row
    tape,                     \* the rows; tape[r][c] is the cell of column c
    normalized_map,           \* locals of run_validations
    canonical_map,
    loan_number_column,
    plans,                    \* for every rule, how lines 143-201 bind it
    pc,                       \* "running", "done" (returned), "raised"
    rule_pos,                 \* position of the for loop in the registry
    issues,
    warnings,
    missing_required_records,
    rule_summary,
    warning_summary,
    skipped_rules,
    result,                   \* the returned dict
    calls,                    \* history: every predicate call, in order
    masks,                    \* history: the mask of every executed rule
    events_used,              \* injected exceptions / signals so far
    escaped,                  \* the exception that left run_validations
    query,                    \* the name handed to the resolver
    answer,                   \* what the resolver returned for it
    signature,                \* the callable handed to the binding step
    previous,                 \* the results of the earlier runs on the tape
    report                    \* the totals the report writer derived

vars ==
    <<columns, index, tape, normalized_map, canonical_map, loan_number_column,
      plans, pc, rule_pos, issues, warnings, missing_required_records, rule_summary,
      warning_summary, skipped_rules, result, calls, masks, events_used,
      escaped, query, answer, signature,
      previous, report>>

\* Headers of the tapes of the model
TapeHeaders ==
    {<<>>,
     <<"Loan Number", "Channel">>,
     <<"Loan Purpose", "Sales Price", "Loan Nbr">>,
     <<"Originator Doc Code", "Primary Servicer", "Servicing Fee",
       "Originator", "LOAN NUMBER">>,
     <<"Amortization Type", "Gross Margin">>,
     <<"Primary Borrower Wage Income", "Co-Borrower Wage Income",
       "Primary Borrower Other Income", "Co-Borrower Other Income",
       "All Borrower Wage Income", "All Borrower Total Income">>,
     <<"Borrower FICO Score", "Channel">>,
     <<"Original Primary Borrower FICO", "Total Nbr of Borrowers">>,
     <<"Original Amortization Term", "Original Term to Maturity",
       "Sales Price">>,
     <<"Loan Nbr", "loan_number", "Originator">>,
     <<"Channel", "Loan Purpose", "Sales Price">>}

\* Cell values of the tapes of the model.  A row holds the palette rotated
\* by the row's shift, so that every column sees every value and
\* neighbouring columns differ; the shifts of the rows of a tape are in
\* arithmetic progression, with one of the steps RowSteps.
CellPalette ==
    <<Num(2), PyNone, Str(" "), PyNaN, Str("abc"), Num(-1), Num(7), Str("7")>>

\* equal rows, rows three apart, rows half a palette apart
RowSteps == {0, 3, 4}

PaletteRow(shift, ncols) ==
    List([c \in 1..ncols |->
             CellPalette[((c - 1 + shift) % Len(CellPalette)) + 1]])

\* Absence of the "loan_number" key in a detail record
NoKey == [kind |-> "nokey", n |-> 0, s |-> ""]

\* no report written
NoReport ==
    [row_count |-> -1, issue_count |-> -1, warning_count |-> -1,
     executed_rules |-> -1, skipped_rules |-> -1]

\* no callable
NoFunction == [name |-> "", params |-> <<>>, varargs |-> "", on_except |-> ""]

NoResult ==
    [row_count |-> -1, columns |-> <<>>, issues |-> <<>>, warnings |-> <<>>,
     missing_required_fields |-> <<>>, rule_summary |-> <<>>,
     warning_summary |-> <<>>, skipped_rules |-> <<>>]

(***************************************************************************)
(* One iteration of the loop over the registry (engine.py 139-279).        *)
(***************************************************************************)
\* the items whose flag is set, in order
RECURSIVE SelectByFlag(_, _)
SelectByFlag(items, flags) ==
    IF items = <<>> THEN <<>>
    ELSE (IF Head(flags) THEN <<Head(items)>> ELSE <<>>)
             \o SelectByFlag(Tail(items), Tail(flags))

\* Faulty variant of PlanVarargs: the rule runs on the fields that resolve,
\* and is skipped only when none does
PlanVarargs_partial(rule_name, func, nmap, cmap) ==
    LET column_names == DictGet(_VARARGS_RULE_COLUMNS, rule_name, <<>>)
        resolved == List([i \in 1..Len(column_names) |->
                        _resolve_column_name(column_names[i], nmap, cmap)])
        cols == SelectSeq(resolved, LAMBDA c : c # Unresolved)
        missing == SelectSeq(column_names,
                       LAMBDA n : _resolve_column_name(n, nmap, cmap)
                                      = Unresolved)
    IN  IF column_names = <<>>
        THEN [varargs |-> TRUE, skip |-> TRUE,
              reason |-> "missing_varargs_mapping",
              missing_columns |-> func.varargs,
              columns |-> <<>>, param_columns |-> <<>>]
        ELSE IF cols = <<>>
        THEN [varargs |-> TRUE, skip |-> TRUE, reason |-> "missing_columns",
              missing_columns |-> JoinWith(missing, ", "),
              columns |-> cols, param_columns |-> <<>>]
        ELSE [varargs |-> TRUE, skip |-> FALSE, reason |-> "",
              missing_columns |-> "", columns |-> cols, param_columns |-> <<>>]

\* Lines 150-177: a rule with a *args parameter
PlanVarargs(rule_name, func, nmap, cmap) ==
    LET column_names == DictGet(_VARARGS_RULE_COLUMNS, rule_name, <<>>)
        resolved == List([i \in 1..Len(column_names) |->
                        _resolve_column_name(column_names[i], nmap, cmap)])
        isMissing == List([i \in 1..Len(column_names) |->
                              resolved[i] = Unresolved])
        missing == SelectByFlag(column_names, isMissing)
        cols == SelectByFlag(resolved,
                             List([i \in 1..Len(resolved) |-> ~isMissing[i]]))
    IN  IF column_names = <<>>
        THEN [varargs |-> TRUE, skip |-> TRUE,
              reason |-> "missing_varargs_mapping",
              missing_columns |-> func.varargs,
              columns |-> <<>>, param_columns |-> <<>>]
        ELSE IF missing # <<>>
        THEN [varargs |-> TRUE, skip |-> TRUE, reason |-> "missing_columns",
              missing_columns |-> JoinWith(missing, ", "),
              columns |-> cols, param_columns |-> <<>>]
        ELSE [varargs |-> TRUE, skip |-> FALSE, reason |-> "",
              missing_columns |-> "", columns |-> cols, param_columns |-> <<>>]

\* Faulty variant of PlanFixed: the skip record lists every declared
\* parameter
PlanFixed_all_params(rule_name, func, nmap, cmap) ==
    LET params == func.params
        param_columns == List([i \in 1..Len(params) |->
                                  _resolve_param_name(params[i], nmap, cmap)])
        cols == SelectSeq(param_columns, LAMBDA c : c # Unresolved)
    IN  IF Len(cols) < Len(params)
           /\ rule_name \notin _ALLOW_MISSING_PARAM_RULES
        THEN [varargs |-> FALSE, skip |-> TRUE, reason |-> "missing_columns",
              missing_columns |-> JoinWith(params, ", "),
              columns |-> cols, param_columns |-> param_columns]
        ELSE [varargs |-> FALSE, skip |-> FALSE, reason |-> "",
              missing_columns |-> "", columns |-> cols,
              param_columns |-> param_columns]

\* Faulty variant of PlanFixed: every rule tolerates unresolved parameters
PlanFixed_tolerant(rule_name, func, nmap, cmap) ==
    LET params == func.params
        param_columns == List([i \in 1..Len(params) |->
                                  _resolve_param_name(params[i], nmap, cmap)])
        cols == SelectSeq(param_columns, LAMBDA c : c # Unresolved)
    IN  [varargs |-> FALSE, skip |-> FALSE, reason |-> "",
         missing_columns |-> "", columns |-> cols,
         param_columns |-> param_columns]

\* Lines 178-201: a rule with a fixed parameter list
PlanFixed(rule_name, func, nmap, cmap) ==
    LET params == func.params
        param_columns == List([i \in 1..Len(params) |->
                                  _resolve_param_name(params[i], nmap, cmap)])
        isMissing == List([i \in 1..Len(params) |->
                              param_columns[i] = Unresolved])
        missing == SelectByFlag(params, isMissing)
        cols == SelectByFlag(param_columns,
                             List([i \in 1..Len(params) |-> ~isMissing[i]]))
    IN  IF missing # <<>> /\ rule_name \notin _ALLOW_MISSING_PARAM_RULES
        THEN [varargs |-> FALSE, skip |-> TRUE, reason |-> "missing_columns",
              missing_columns |-> JoinWith(missing, ", "),
              columns |-> cols, param_columns |-> param_columns]
        ELSE [varargs |-> FALSE, skip |-> FALSE, reason |-> "",
              missing_columns |-> "", columns |-> cols,
              param_columns |-> param_columns]

\* Lines 143-201: how the rule binds to the tape, or why it is skipped
PlanRule(rule_name, nmap, cmap) ==
    LET func == FunctionNamed(rule_name)
    IN  IF func.varargs # "" THEN PlanVarargs(rule_name, func, nmap, cmap)
        ELSE PlanFixed(rule_name, func, nmap, cmap)

ColumnPos(cols, col) == CHOOSE c \in 1..Len(cols) : cols[c] = col

\* row[col]
CellOf(cols, row, col) == row[ColumnPos(cols, col)]

\* Faulty variant of ArgumentValues: the cells of the resolved parameters
\* come first and the None placeholders last, so arguments change position
ArgumentValues_shifted(plan, cols, row) ==
    LET cells == [i \in 1..Len(plan.columns) |->
                     CellOf(cols, row, plan.columns[i])]
        rest == Len(plan.param_columns) - Len(plan.columns)
    IN  List(cells \o [i \in 1..rest |-> PyNone])

\* The argument list apply_rule / apply_missing_required build for a row
ArgumentValues(plan, cols, row) ==
    IF plan.varargs
    THEN List([i \in 1..Len(plan.columns) |->
                  CellOf(cols, row, plan.columns[i])])
    ELSE List([i \in 1..Len(plan.param_columns) |->
                  IF plan.param_columns[i] # Unresolved
                  THEN CellOf(cols, row, plan.param_columns[i])
                  ELSE PyNone])

\* An injected exception or signal: the row it hits and its kind
NoEvent == [row |-> 0, kind |-> "none"]
KindAt(ev, r) == IF ev.row = r THEN ev.kind ELSE "none"

\* Faulty variant of apply_rule: fail-open, a raising predicate clears the row
apply_rule_fail_open(rule_name, plan, cols, row, kind) ==
    LET out == CallOutcome(rule_name, ArgumentValues(plan, cols, row), kind)
    IN  IF out = "Raise" THEN "False" ELSE out

\* Lines 248-261, apply_rule: "True" / "False", or the exception that
\* leaves it.  "except Exception" turns an exception into True, re-raises
\* bdb.BdbQuit and does not catch KeyboardInterrupt.
apply_rule(rule_name, plan, cols, row, kind) ==
    LET out == CallOutcome(rule_name, ArgumentValues(plan, cols, row), kind)
    IN  IF out = "Raise" THEN "True" ELSE out

\* Lines 211-216, apply_missing_required: no handler, whatever leaves the
\* predicate leaves the function
apply_missing_required(rule_name, plan, cols, row, kind) ==
    LET out == CallOutcome(rule_name, ArgumentValues(plan, cols, row), kind)
    IN  IF out = "Raise" THEN "Exception" ELSE out

\* Faulty variant of DisplayColumns: the resolution result is the label
DisplayColumns_resolved(rule_name, plan) ==
    plan.param_columns

\* Lines 204-209: the label of each declared field
DisplayColumns(rule_name, plan) ==
    LET params == FunctionNamed(rule_name).params
    IN  List([i \in 1..Len(params) |->
                 IF plan.param_columns[i] = Unresolved
                 THEN DictGet(_PARAM_ALIASES, params[i], params[i])
                 ELSE plan.param_columns[i]])

\* Faulty variant of collect_missing_required: the first blank field only
collect_missing_required_first(rule_name, plan, cols, row) ==
    LET display_columns == DisplayColumns(rule_name, plan)
        values == ArgumentValues(plan, cols, row)
        blank == SelectByFlag(display_columns,
                     List([i \in 1..Len(values) |-> _is_blank(values[i])]))
    IN  IF blank = <<>> THEN <<>> ELSE <<blank[1]>>

\* Lines 218-224, collect_missing_required: the labels of the blank fields
collect_missing_required(rule_name, plan, cols, row) ==
    LET display_columns == DisplayColumns(rule_name, plan)
        values == ArgumentValues(plan, cols, row)
    IN  SelectByFlag(display_columns,
                     List([i \in 1..Len(values) |-> _is_blank(values[i])]))

\* DataFrame.apply(f, axis=1): outs[r] is what f gives for row r; the rows
\* are visited in order and the first exception ends the visit.  On a frame
\* without rows the result is an empty Series (pandas 2.x).
FirstEscape(outs) ==
    IF \E r \in 1..Len(outs) : outs[r] \notin {"True", "False"}
    THEN CHOOSE r \in 1..Len(outs) :
             /\ outs[r] \notin {"True", "False"}
             /\ \A q \in 1..(r - 1) : outs[q] \in {"True", "False"}
    ELSE 0

\* tape_df.at[row_index, loan_number_column] if loan_number_column else None
LoanNumberValue(cols, row, lnc) ==
    IF lnc # Unresolved THEN CellOf(cols, row, lnc) ELSE PyNone

\* Lines 235-245: the records of the flagged rows r..Len(rows)
RECURSIVE MissingRequiredRecords(_, _, _, _, _, _, _)
MissingRequiredRecords(rule_name, plan, cols, rows, mask, lnc, r) ==
    IF r > Len(rows) THEN <<>>
    ELSE LET fields == collect_missing_required(rule_name, plan, cols, rows[r])
             recs == List([i \in 1..Len(fields) |->
                         [Missing_Required_Field |-> fields[i],
                          Loan_Number |-> LoanNumberValue(cols, rows[r], lnc)]])
         IN  (IF mask[r] THEN recs ELSE <<>>)
                 \o MissingRequiredRecords(rule_name, plan, cols, rows, mask,
                                           lnc, r + 1)

\* Faulty variant of DetailRecords: a record for every row, flagged or not
RECURSIVE DetailRecords_every_row(_, _, _, _, _, _, _, _)
DetailRecords_every_row(rule_name, plan, cols, idx, rows, mask, lnc, r) ==
    IF r > Len(rows) THEN <<>>
    ELSE <<[rule |-> rule_name,
            row_index |-> idx[r],
            columns |-> JoinWith(plan.columns, ", "),
            loan_number |->
                IF lnc # Unresolved THEN CellOf(cols, rows[r], lnc)
                ELSE NoKey]>>
             \o DetailRecords_every_row(rule_name, plan, cols, idx, rows,
                                        mask, lnc, r + 1)

\* Lines 271-279: the detail records of the flagged rows r..Len(rows)
RECURSIVE DetailRecords(_, _, _, _, _, _, _, _)
DetailRecords(rule_name, plan, cols, idx, rows, mask, lnc, r) ==
    IF r > Len(rows) THEN <<>>
    ELSE LET record ==
                 [rule |-> rule_name,
                  row_index |-> idx[r],
                  columns |-> JoinWith(plan.columns, ", "),
                  loan_number |->
                      IF lnc # Unresolved THEN CellOf(cols, rows[r], lnc)
                      ELSE NoKey]
         IN  (IF mask[r] THEN <<record>> ELSE <<>>)
                 \o DetailRecords(rule_name, plan, cols, idx, rows, mask, lnc,
                                  r + 1)

\* The predicate calls of one DataFrame.apply, rows 1..last: the row, what
\* the environment raised inside the call, the arguments, and what left the
\* predicate
CallLog(rule_name, plan, cols, rows, ev, last) ==
    List([r \in 1..last |->
             [rule |-> rule_name, row |-> r, event |-> KindAt(ev, r),
              values |-> ArgumentValues(plan, cols, rows[r]),
              outcome |-> CallOutcome(rule_name,
                                      ArgumentValues(plan, cols, rows[r]),
                                      KindAt(ev, r))]])

\* A tape is handed to run_validations; lines 129-137 have run.  A frame
\* with rows has at least one column, its headers are distinct and its index
\* is the default one (what read_csv / read_excel produce).  The binding
\* of a rule (PlanRule) depends on the rule and the column maps only, so the
\* bindings the loop will compute are tabulated here, once per tape.
Init ==
    /\ columns \in TapeHeaders
    /\ normalized_map = _build_column_maps(columns).normalized_map
    /\ canonical_map = _build_column_maps(columns).canonical_map
    /\ loan_number_column =
           _resolve_column_name("loan_number", normalized_map, canonical_map)
    /\ plans = List([i \in 1..Len(get_validations_registry) |->
                         PlanRule(get_validations_registry[i], normalized_map,
                                  canonical_map)])
    /\ \E n \in 0..(IF columns = <<>> THEN 0 ELSE MaxRows) :
         /\ index = List([r \in 1..n |-> r - 1])
         /\ \E first \in 0..(Len(CellPalette) - 1), step \in RowSteps :
              tape = List([r \in 1..n |->
                              PaletteRow(first + (r - 1) * step,
                                         Len(columns))])
    /\ pc = "running"
    /\ rule_pos = 1
    /\ issues = <<>>
    /\ warnings = <<>>
    /\ missing_required_records = <<>>
    /\ rule_summary = <<>>
    /\ warning_summary = <<>>
    /\ skipped_rules = <<>>
    /\ result = NoResult
    /\ calls = <<>>
    /\ masks = <<>>
    /\ events_used = 0
    /\ escaped = ""
    /\ query = ""
    /\ answer = Unresolved
    /\ signature = NoFunction
    /\ report = NoReport
    /\ previous = <<>>

\* What the environment may inject into the calls of one rule
Events ==
    {NoEvent} \cup
    (IF events_used < MaxEvents
     THEN [row : 1..Len(tape), kind : EventKinds]
     ELSE {})

CurrentRule == get_validations_registry[rule_pos]
CurrentPlan == plans[rule_pos]

InLoop == pc = "running" /\ rule_pos <= Len(get_validations_registry)

\* Faulty variant of SkippedRecord: the record does not name the rule
SkippedRecord_anonymous(rule_name, plan) ==
    [rule |-> "", reason |-> plan.reason,
     missing_columns |-> plan.missing_columns]

\* Lines 153-160, 170-177, 194-201: the record of a skipped rule
SkippedRecord(rule_name, plan) ==
    [rule |-> rule_name, reason |-> plan.reason,
     missing_columns |-> plan.missing_columns]

\* Lines 153-160, 170-177, 194-201: the rule is skipped
SkipRule ==
    /\ InLoop
    /\ CurrentPlan.skip
    /\ skipped_rules' =
           Append(skipped_rules, SkippedRecord(CurrentRule, CurrentPlan))
    /\ rule_pos' = rule_pos + 1
    /\ UNCHANGED <<report, signature, previous, query, answer, columns, index,
                   tape, normalized_map, canonical_map, loan_number_column,
                   plans, pc, issues, warnings, missing_required_records,
                   rule_summary, warning_summary, result, calls, masks,
                   events_used, escaped>>

\* Lines 226-245: the missing-required-fields rule applied to the tape.
\* stop: the row whose call raised (0: none); escaped: what it raised.
MissingRequiredIteration(rule_name, plan, ev) ==
    LET outs == List([r \in 1..Len(tape) |->
                         apply_missing_required(rule_name, plan, columns,
                                                tape[r], KindAt(ev, r))])
        stop == FirstEscape(outs)
        issue_mask == List([r \in 1..Len(tape) |-> outs[r] = "True"])
        records == MissingRequiredRecords(rule_name, plan, columns, tape,
                                          issue_mask, loan_number_column, 1)
        missing_record_count == Len(records)
    IN  [stop |-> stop,
         escaped |-> IF stop # 0 THEN outs[stop] ELSE "",
         calls |-> CallLog(rule_name, plan, columns, tape, ev,
                           IF stop # 0 THEN stop ELSE Len(tape)),
         mask |-> issue_mask,
         summary |-> [rule |-> rule_name, issue_count |-> missing_record_count],
         records |-> records]

\* Faulty variant of RuleIteration: the count is the number of rows
RuleIteration_row_count(rule_name, plan, ev) ==
    LET outs == List([r \in 1..Len(tape) |->
                         apply_rule(rule_name, plan, columns, tape[r],
                                    KindAt(ev, r))])
        stop == FirstEscape(outs)
        mask == List([r \in 1..Len(tape) |-> outs[r] = "True"])
    IN  [stop |-> stop,
         escaped |-> IF stop # 0 THEN outs[stop] ELSE "",
         calls |-> CallLog(rule_name, plan, columns, tape, ev,
                           IF stop # 0 THEN stop ELSE Len(tape)),
         mask |-> mask,
         summary |-> [rule |-> rule_name, issue_count |-> Len(tape)],
         records |-> DetailRecords(rule_name, plan, columns, index, tape, mask,
                                   loan_number_column, 1)]

\* Lines 263-279: any other runnable rule applied to the tape
RuleIteration(rule_name, plan, ev) ==
    LET outs == List([r \in 1..Len(tape) |->
                         apply_rule(rule_name, plan, columns, tape[r],
                                    KindAt(ev, r))])
        stop == FirstEscape(outs)
        mask == List([r \in 1..Len(tape) |-> outs[r] = "True"])
        issue_count == Cardinality({r \in 1..Len(tape) : mask[r]})
    IN  [stop |-> stop,
         escaped |-> IF stop # 0 THEN outs[stop] ELSE "",
         calls |-> CallLog(rule_name, plan, columns, tape, ev,
                           IF stop # 0 THEN stop ELSE Len(tape)),
         mask |-> mask,
         summary |-> [rule |-> rule_name, issue_count |-> issue_count],
         records |-> DetailRecords(rule_name, plan, columns, index, tape, mask,
                                   loan_number_column, 1)]

\* Faulty variant of FrameAfterApply: the absent cells of the frame are
\* filled in place
FrameAfterApply_filled(rows) ==
    List([r \in 1..Len(rows) |->
             List([c \in 1..Len(rows[r]) |->
                      IF PdIsNa(rows[r][c]) THEN Num(0) ELSE rows[r][c]])])

\* Lines 229-231 and 263-264: tape_df.apply(..., axis=1) hands every row to
\* the function and builds a new Series; fillna and astype act on that
\* Series.  The frame is what it was.
FrameAfterApply(rows) == rows

\* Lines 203-246: the missing-required-fields rule
RunMissingRequired ==
    /\ InLoop
    /\ ~CurrentPlan.skip
    /\ CurrentRule = "validate_missing_required_fields"
    /\ ~CurrentPlan.varargs
    /\ tape' = FrameAfterApply(tape)
    /\ \E ev \in Events :
         \E it \in {MissingRequiredIteration(CurrentRule, CurrentPlan, ev)} :
             /\ events_used' = events_used + (IF ev = NoEvent THEN 0 ELSE 1)
             /\ calls' = calls \o it.calls
             /\ IF it.stop # 0
                THEN /\ pc' = "raised"
                     /\ escaped' = it.escaped
                     /\ UNCHANGED <<rule_pos, masks, rule_summary,
                                    warning_summary,
                                    missing_required_records>>
                ELSE /\ masks' = (CurrentRule :> it.mask) @@ masks
                     /\ rule_summary' =
                            IF is_warning(CurrentRule) THEN rule_summary
                            ELSE Append(rule_summary, it.summary)
                     /\ warning_summary' =
                            IF is_warning(CurrentRule)
                            THEN Append(warning_summary, it.summary)
                            ELSE warning_summary
                     /\ missing_required_records' =
                            missing_required_records \o it.records
                     /\ rule_pos' = rule_pos + 1
                     /\ UNCHANGED <<pc, escaped>>
    /\ UNCHANGED <<report, signature, previous, query, answer, columns, index,
                   normalized_map, canonical_map, loan_number_column, plans,
                   issues, warnings, skipped_rules, result>>

\* Lines 248-279: every other runnable rule
RunRule ==
    /\ InLoop
    /\ ~CurrentPlan.skip
    /\ ~(CurrentRule = "validate_missing_required_fields"
         /\ ~CurrentPlan.varargs)
    /\ tape' = FrameAfterApply(tape)
    /\ \E ev \in Events :
         \E it \in {RuleIteration(CurrentRule, CurrentPlan, ev)} :
             /\ events_used' = events_used + (IF ev = NoEvent THEN 0 ELSE 1)
             /\ calls' = calls \o it.calls
             /\ IF it.stop # 0
                THEN /\ pc' = "raised"
                     /\ escaped' = it.escaped
                     /\ UNCHANGED <<rule_pos, masks, rule_summary,
                                    warning_summary, issues, warnings>>
                ELSE /\ masks' = (CurrentRule :> it.mask) @@ masks
                     /\ rule_summary' =
                            IF is_warning(CurrentRule) THEN rule_summary
                            ELSE Append(rule_summary, it.summary)
                     /\ warning_summary' =
                            IF is_warning(CurrentRule)
                            THEN Append(warning_summary, it.summary)
                            ELSE warning_summary
                     /\ issues' =
                            IF is_warning(CurrentRule) THEN issues
                            ELSE issues \o it.records
                     /\ warnings' =
                            IF is_warning(CurrentRule)
                            THEN warnings \o it.records
                            ELSE warnings
                     /\ rule_pos' = rule_pos + 1
                     /\ UNCHANGED <<pc, escaped>>
    /\ UNCHANGED <<report, signature, previous, query, answer, columns, index,
                   normalized_map, canonical_map, loan_number_column, plans,
                   missing_required_records, skipped_rules, result>>

\* DataFrame.sort_values("rule") on a summary: the records by rule name
RECURSIVE InsertByRule(_, _)
InsertByRule(rec, sorted) ==
    IF sorted = <<>> THEN <<rec>>
    ELSE IF StrLess(rec.rule, Head(sorted).rule) THEN <<rec>> \o sorted
    ELSE <<Head(sorted)>> \o InsertByRule(rec, Tail(sorted))

RECURSIVE SortByRule(_)
SortByRule(recs) ==
    IF recs = <<>> THEN <<>>
    ELSE InsertByRule(recs[Len(recs)], SortByRule(SubSeq(recs, 1, Len(recs) - 1)))

\* Lines 281-319: the loop is over, the result is built and returned
Return ==
    /\ pc = "running"
    /\ rule_pos > Len(get_validations_registry)
    /\ result' =
           [row_count |-> Len(tape),
            columns |-> columns,
            issues |-> issues,
            warnings |-> warnings,
            missing_required_fields |-> missing_required_records,
            rule_summary |-> SortByRule(rule_summary),
            warning_summary |-> SortByRule(warning_summary),
            skipped_rules |-> SortByRule(skipped_rules)]
    /\ pc' = "done"
    /\ UNCHANGED <<report, signature, previous, query, answer, columns, index,
                   tape, normalized_map, canonical_map, loan_number_column,
                   plans, rule_pos, issues, warnings,
                   missing_required_records, rule_summary, warning_summary,
                   skipped_rules, calls, masks, events_used, escaped>>

Next ==
    \/ SkipRule
    \/ RunMissingRequired
    \/ RunRule
    \/ Return

Spec == Init /\ [][Next]_vars

TypeOK ==
    /\ pc \in {"running", "done", "raised"}
    /\ rule_pos \in 1..(Len(get_validations_registry) + 1)
    /\ events_used \in 0..MaxEvents
    /\ (pc = "done") = (result # NoResult)

(***************************************************************************)
(* run_validations called again on the same tape: every call starts from   *)
(* the tape and the catalogue alone.  No exception is injected here: what   *)
(* the environment raises is not part of the (tape, catalogue) pair.        *)
(***************************************************************************)
MaxRuns == 2       \* calls of run_validations on one tape

\* Faulty variant of FreshList: the list outlives the call, as a
\* module-level list or a mutable default argument would
FreshList_kept(existing) == existing

\* Lines 131-136: a list local to the call starts empty, whatever an
\* earlier call collected
FreshList(existing) == <<>>

InitTwice ==
    /\ columns \in TapeHeaders
    /\ normalized_map = _build_column_maps(columns).normalized_map
    /\ canonical_map = _build_column_maps(columns).canonical_map
    /\ loan_number_column =
           _resolve_column_name("loan_number", normalized_map, canonical_map)
    /\ plans = List([i \in 1..Len(get_validations_registry) |->
                         PlanRule(get_validations_registry[i], normalized_map,
                                  canonical_map)])
    /\ \E n \in 0..(IF columns = <<>> THEN 0 ELSE MaxRows) :
         /\ index = List([r \in 1..n |-> r - 1])
         /\ \E first \in 0..(Len(CellPalette) - 1), step \in RowSteps :
              tape = List([r \in 1..n |->
                              PaletteRow(first + (r - 1) * step,
                                         Len(columns))])
    /\ pc = "running"
    /\ rule_pos = 1
    /\ issues = <<>>
    /\ warnings = <<>>
    /\ missing_required_records = <<>>
    /\ rule_summary = <<>>
    /\ warning_summary = <<>>
    /\ skipped_rules = <<>>
    /\ result = NoResult
    /\ calls = <<>>
    /\ masks = <<>>
    /\ events_used = MaxEvents
    /\ escaped = ""
    /\ query = ""
    /\ answer = Unresolved
    /\ signature = NoFunction
    /\ report = NoReport
    /\ previous = <<>>

\* The caller keeps the result and calls run_validations(tape_df) again:
\* lines 129-137 run anew on the same frame
Rerun ==
    /\ pc = "done"
    /\ Len(previous) < MaxRuns - 1
    /\ previous' = Append(previous, result)
    /\ result' = NoResult
    /\ pc' = "running"
    /\ rule_pos' = 1
    /\ issues' = FreshList(issues)
    /\ warnings' = FreshList(warnings)
    /\ missing_required_records' = FreshList(missing_required_records)
    /\ rule_summary' = FreshList(rule_summary)
    /\ warning_summary' = FreshList(warning_summary)
    /\ skipped_rules' = FreshList(skipped_rules)
    /\ calls' = <<>>
    /\ masks' = <<>>
    /\ UNCHANGED <<report, signature, query, answer, columns, index, tape,
                   normalized_map, canonical_map, loan_number_column, plans,
                   events_used, escaped>>

NextTwice ==
    \/ SkipRule
    \/ RunMissingRequired
    \/ RunRule
    \/ Return
    \/ Rerun

SpecTwice == InitTwice /\ [][NextTwice]_vars

(***************************************************************************)
(* The resolver on its own: engine._build_column_maps followed by          *)
(* engine._resolve_column_name or engine._resolve_param_name, for column   *)
(* lists and names drawn from small pools.                                 *)
(***************************************************************************)
MaxCols == 2       \* columns of a tape handed to the resolver

HeaderPool ==
    {"Loan Nbr", "loan_number", "LOAN NUMBER", "Original LTV",
     "Original Loan Amount", "Primary Borrower Wage Income", "pbw",
     "Borrower FICO Score", "Original Primary Borrower FICO"}

NamePool ==
    {"loan_number", "oltv", "original_ltv", "original_loan_amount", "pbw",
     "borrower_fico_score"}

ColumnLists == UNION {[1..n -> HeaderPool] : n \in 0..MaxCols}

InitResolve ==
    /\ columns \in ColumnLists
    /\ query \in NamePool
    /\ answer = Unresolved
    /\ normalized_map = <<>>
    /\ canonical_map = <<>>
    /\ pc = "resolver"
    /\ index = <<>>
    /\ tape = <<>>
    /\ loan_number_column = Unresolved
    /\ plans = <<>>
    /\ rule_pos = 1
    /\ issues = <<>>
    /\ warnings = <<>>
    /\ missing_required_records = <<>>
    /\ rule_summary = <<>>
    /\ warning_summary = <<>>
    /\ skipped_rules = <<>>
    /\ result = NoResult
    /\ calls = <<>>
    /\ masks = <<>>
    /\ events_used = 0
    /\ escaped = ""
    /\ signature = NoFunction
    /\ report = NoReport
    /\ previous = <<>>

\* engine.py line 129: the column maps of the tape
BuildColumnMaps ==
    /\ pc = "resolver"
    /\ normalized_map' = _build_column_maps(columns).normalized_map
    /\ canonical_map' = _build_column_maps(columns).canonical_map
    /\ pc' = "mapped"
    /\ UNCHANGED <<report, signature, previous, query, answer, columns, index,
                   tape, loan_number_column, plans, rule_pos, issues,
                   warnings, missing_required_records, rule_summary,
                   warning_summary, skipped_rules, result, calls, masks,
                   events_used, escaped>>

\* a call of _resolve_column_name(query, normalized_map, canonical_map)
ResolveColumnName ==
    /\ pc = "mapped"
    /\ answer' = _resolve_column_name(query, normalized_map, canonical_map)
    /\ pc' = "column_resolved"
    /\ UNCHANGED <<report, signature, previous, query, columns, index, tape,
                   normalized_map, canonical_map, loan_number_column, plans,
                   rule_pos, issues, warnings, missing_required_records,
                   rule_summary, warning_summary, skipped_rules, result,
                   calls, masks, events_used, escaped>>

\* a call of _resolve_param_name(query, normalized_map, canonical_map)
ResolveParamName ==
    /\ pc = "mapped"
    /\ answer' = _resolve_param_name(query, normalized_map, canonical_map)
    /\ pc' = "param_resolved"
    /\ UNCHANGED <<report, signature, previous, query, columns, index, tape,
                   normalized_map, canonical_map, loan_number_column, plans,
                   rule_pos, issues, warnings, missing_required_records,
                   rule_summary, warning_summary, skipped_rules, result,
                   calls, masks, events_used, escaped>>

NextResolve ==
    \/ BuildColumnMaps
    \/ ResolveColumnName
    \/ ResolveParamName

SpecResolve == InitResolve /\ [][NextResolve]_vars

(***************************************************************************)
(* The name functions on their own: engine._normalize_name applied once    *)
(* and twice, and engine._canonical_key, for names drawn from all strings  *)
(* over a small alphabet and from phrases over a small vocabulary.         *)
(***************************************************************************)
MaxLen == 4        \* characters of a name drawn from the alphabet
MaxWords == 3      \* words of a phrase

\* an upper-case letter, a lower-case letter, a digit, an underscore, a
\* blank and a punctuation mark
NameAlphabet == {"A", "b", "7", "_", " ", "-"}

\* abbreviations, their long forms, stopwords and plain words, in several
\* spellings
WordPool ==
    {"Yrs", "Years", "YRS", "At", "in", "Industry", "INDUSTRY", "Nbr"}

WordSeparators == {" ", "_"}

\* the strings over NameAlphabet of at most n characters
RECURSIVE StringsUpTo(_)
StringsUpTo(n) ==
    IF n = 0 THEN {""}
    ELSE LET shorter == StringsUpTo(n - 1)
         IN  shorter \cup {t \o c : t \in shorter, c \in NameAlphabet}

\* the phrases of at most n words of WordPool joined by sep
RECURSIVE PhrasesUpTo(_, _)
PhrasesUpTo(n, sep) ==
    IF n = 1 THEN WordPool
    ELSE LET shorter == PhrasesUpTo(n - 1, sep)
         IN  shorter \cup {t \o sep \o w : t \in shorter, w \in WordPool}

Names ==
    StringsUpTo(MaxLen)
        \cup UNION {PhrasesUpTo(MaxWords, sep) : sep \in WordSeparators}

\* no run of run_validations is in progress
NoRun ==
    /\ columns = <<>>
    /\ normalized_map = <<>>
    /\ canonical_map = <<>>
    /\ index = <<>>
    /\ tape = <<>>
    /\ loan_number_column = Unresolved
    /\ plans = <<>>
    /\ rule_pos = 1
    /\ issues = <<>>
    /\ warnings = <<>>
    /\ missing_required_records = <<>>
    /\ rule_summary = <<>>
    /\ warning_summary = <<>>
    /\ skipped_rules = <<>>
    /\ result = NoResult
    /\ calls = <<>>
    /\ masks = <<>>
    /\ events_used = 0
    /\ escaped = ""

InitNames ==
    /\ query \in Names
    /\ answer = Unresolved
    /\ signature = NoFunction
    /\ report = NoReport
    /\ previous = <<>>
    /\ pc = "name"
    /\ NoRun

\* a call of _normalize_name(query)
NormalizeName ==
    /\ pc = "name"
    /\ answer' = _normalize_name(query)
    /\ pc' = "normalized"
    /\ UNCHANGED <<report, signature, previous, query, columns, index, tape,
                   normalized_map, canonical_map, loan_number_column, plans,
                   rule_pos, issues, warnings, missing_required_records,
                   rule_summary, warning_summary, skipped_rules, result,
                   calls, masks, events_used, escaped>>

\* a call of _normalize_name on the result of the first call
NormalizeAgain ==
    /\ pc = "normalized"
    /\ answer' = _normalize_name(answer)
    /\ pc' = "renormalized"
    /\ UNCHANGED <<report, signature, previous, query, columns, index, tape,
                   normalized_map, canonical_map, loan_number_column, plans,
                   rule_pos, issues, warnings, missing_required_records,
                   rule_summary, warning_summary, skipped_rules, result,
                   calls, masks, events_used, escaped>>

\* a call of _canonical_key(query)
CanonicalKey ==
    /\ pc = "name"
    /\ answer' = _canonical_key(query)
    /\ pc' = "canonical"
    /\ UNCHANGED <<report, signature, previous, query, columns, index, tape,
                   normalized_map, canonical_map, loan_number_column, plans,
                   rule_pos, issues, warnings, missing_required_records,
                   rule_summary, warning_summary, skipped_rules, result,
                   calls, masks, events_used, escaped>>

NextNames ==
    \/ NormalizeName
    \/ NormalizeAgain
    \/ CanonicalKey

SpecNames == InitNames /\ [][NextNames]_vars

(***************************************************************************)
(* The binding step on its own: lines 143-201 for one registry entry,      *)
(* followed by the skip record or by the argument list of the first row.   *)
(* The registry entry is drawn from the shipped catalogue and from the     *)
(* same catalogue with a rule declared variable-arity, as a rule added to  *)
(* the rules module without an entry in _VARARGS_RULE_COLUMNS would be.    *)
(***************************************************************************)
\* tapes with some of the income columns, and with all of them in an order
\* that is not the configured one
BindHeaders ==
    TapeHeaders \cup
    {<<"Primary Borrower Wage Income", "All Borrower Total Income">>,
     <<"All Borrower Total Income", "Co-Borrower Wage Income",
       "Primary Borrower Wage Income", "Primary Borrower Other Income",
       "Co-Borrower Other Income", "All Borrower Wage Income">>}

\* def rule(*args): the rule declared with a variable-arity parameter
AsVarargs(func) == [func EXCEPT !.params = <<>>, !.varargs = "args"]

\* what inspect.signature can report for a registry entry
Signatures(rule_name) ==
    {FunctionNamed(rule_name), AsVarargs(FunctionNamed(rule_name))}

InitBind ==
    /\ columns \in BindHeaders
    /\ normalized_map = _build_column_maps(columns).normalized_map
    /\ canonical_map = _build_column_maps(columns).canonical_map
    /\ loan_number_column =
           _resolve_column_name("loan_number", normalized_map, canonical_map)
    /\ index = <<0>>
    /\ \E first \in 0..(Len(CellPalette) - 1) :
           tape = <<PaletteRow(first, Len(columns))>>
    /\ \E i \in 1..Len(get_validations_registry) :
           /\ query = get_validations_registry[i]
           /\ signature \in Signatures(query)
    /\ plans = <<>>
    /\ pc = "bind"
    /\ rule_pos = 1
    /\ issues = <<>>
    /\ warnings = <<>>
    /\ missing_required_records = <<>>
    /\ rule_summary = <<>>
    /\ warning_summary = <<>>
    /\ skipped_rules = <<>>
    /\ result = NoResult
    /\ calls = <<>>
    /\ masks = <<>>
    /\ events_used = 0
    /\ escaped = ""
    /\ answer = Unresolved
    /\ previous = <<>>
    /\ report = NoReport

\* Lines 143-201 for the rule `query` with the callable `signature`
BindRule ==
    /\ pc = "bind"
    /\ plans' = <<IF signature.varargs # ""
                  THEN PlanVarargs(query, signature, normalized_map,
                                   canonical_map)
                  ELSE PlanFixed(query, signature, normalized_map,
                                 canonical_map)>>
    /\ pc' = "planned"
    /\ UNCHANGED <<report, signature, previous, query, answer, columns, index,
                   tape, normalized_map, canonical_map, loan_number_column,
                   rule_pos, issues, warnings, missing_required_records,
                   rule_summary, warning_summary, skipped_rules, result,
                   calls, masks, events_used, escaped>>

\* Lines 153-160, 170-177, 194-201: the skip record of the rule
BindSkip ==
    /\ pc = "planned"
    /\ plans[1].skip
    /\ skipped_rules' = Append(skipped_rules, SkippedRecord(query, plans[1]))
    /\ pc' = "skipped"
    /\ UNCHANGED <<report, signature, previous, query, answer, columns, index,
                   tape, normalized_map, canonical_map, loan_number_column,
                   plans, rule_pos, issues, warnings,
                   missing_required_records, rule_summary, warning_summary,
                   result, calls, masks, events_used, escaped>>

\* Lines 211-216, 248-257: the rule is called for the first row
BindApply ==
    /\ pc = "planned"
    /\ ~plans[1].skip
    /\ calls' = CallLog(query, plans[1], columns, tape, NoEvent, 1)
    /\ pc' = "applied"
    /\ UNCHANGED <<report, signature, previous, query, answer, columns, index,
                   tape, normalized_map, canonical_map, loan_number_column,
                   plans, rule_pos, issues, warnings,
                   missing_required_records, rule_summary, warning_summary,
                   skipped_rules, result, masks, events_used, escaped>>

NextBind ==
    \/ BindRule
    \/ BindSkip
    \/ BindApply

SpecBind == InitBind /\ [][NextBind]_vars

(***************************************************************************)
(* The helpers and predicates of asf_validations on their own: one call of *)
(* _is_blank on a value, or of a two-parameter rule on a pair of values,   *)
(* drawn from small pools.  query is the function called, the one row of   *)
(* tape holds the arguments, answer is what the call returned.             *)
(***************************************************************************)
\* the values _is_blank is called with
BlankInputs ==
    {PyNone, PyNaN, Num(-1), Num(0), Num(1)}
        \cup {Str(t) : t \in StringsUpTo(MaxLen)}

\* the values the rules are called with
RuleInputs ==
    {PyNone, PyNaN, Num(-1), Num(0), Num(6), Num(7), Num(9), Num(180),
     Num(360), Num(500000), Str(""), Str(" "), Str("6"), Str("abc")}

\* the rules called on their own
RulesCalled ==
    {"validate_purpose_id_vs_sales_price",
     "validate_amort_term_gt_term_to_maturity"}

InitRules ==
    /\ \/ /\ query = "_is_blank"
          /\ \E value \in BlankInputs : tape = <<<<value>>>>
       \/ /\ query \in RulesCalled
          /\ \E first \in RuleInputs, second \in RuleInputs :
                 tape = <<<<first, second>>>>
    /\ answer = Unresolved
    /\ pc = "call"
    /\ signature = NoFunction
    /\ previous = <<>>
    /\ report = NoReport
    /\ columns = <<>>
    /\ normalized_map = <<>>
    /\ canonical_map = <<>>
    /\ index = <<0>>
    /\ loan_number_column = Unresolved
    /\ plans = <<>>
    /\ rule_pos = 1
    /\ issues = <<>>
    /\ warnings = <<>>
    /\ missing_required_records = <<>>
    /\ rule_summary = <<>>
    /\ warning_summary = <<>>
    /\ skipped_rules = <<>>
    /\ result = NoResult
    /\ calls = <<>>
    /\ masks = <<>>
    /\ events_used = 0
    /\ escaped = ""

\* a call of _is_blank(value)
IsBlank ==
    /\ pc = "call"
    /\ query = "_is_blank"
    /\ answer' = PyBool(_is_blank(tape[1][1]))
    /\ pc' = "returned"
    /\ UNCHANGED <<report, signature, previous, query, columns, index, tape,
                   normalized_map, canonical_map, loan_number_column, plans,
                   rule_pos, issues, warnings, missing_required_records,
                   rule_summary, warning_summary, skipped_rules, result,
                   calls, masks, events_used, escaped>>

\* a call of the rule on a pair of values
CallRule ==
    /\ pc = "call"
    /\ query \in RulesCalled
    /\ answer' = Invoke(query, tape[1])
    /\ pc' = "returned"
    /\ UNCHANGED <<report, signature, previous, query, columns, index, tape,
                   normalized_map, canonical_map, loan_number_column, plans,
                   rule_pos, issues, warnings, missing_required_records,
                   rule_summary, warning_summary, skipped_rules, result,
                   calls, masks, events_used, escaped>>

NextRules ==
    \/ IsBlank
    \/ CallRule

SpecRules == InitRules /\ [][NextRules]_vars

(***************************************************************************)
(* The command cli.run: io.read_tape loads the file, run_validations       *)
(* checks the tape, the wrapper stamps the result and report.write_report  *)
(* derives the totals of the summary sheet.  No exception is injected      *)
(* here.                                                                   *)
(***************************************************************************)
MaxFileRows == 3

\* Headers of the files of the model
FileHeaders ==
    {<<"Loan Number", "Channel">>,
     <<"Loan Number", "Loan Purpose", "Sales Price">>,
     <<"Loan Number", "Servicing Fee %">>,
     <<"Loan Number", "Channel", "Total Nbr of Borrowers">>,
     <<"Channel">>}

\* io._NUMERIC_COLUMNS (the second spelling of the "Other" payment column,
\* with typographic quotes, is not written here; no file of the model has
\* such a column)
_NUMERIC_COLUMNS ==
    {"Cash Out Amount", "Senior Loan Amount(s)", "Junior Mortgage Balance",
     "Original Loan Amount", "Current Loan Amount",
     "Current Payment Amount Due", "Current 'Other' Monthly Payment",
     "Length of Employment: Borrower", "Length of Employment: Co-Borrower",
     "Years in Home", "Most Recent 12-month Pay History",
     "Months Foreclosure", "Primary Borrower Wage Income",
     "Co-Borrower Wage Income", "Primary Borrower Other Income",
     "Co-Borrower Other Income", "All Borrower Wage Income",
     "All Borrower Total Income", "Liquid / Cash Reserves",
     "Monthly Debt All Borrowers", "Sales Price",
     "Original Appraised Property Value", "Most Recent Property Value2",
     "Cash To/From Borrower at Closing", "Borrower - Yrs at in Industry",
     "Co-Borrower - Yrs at in Industry"}

\* io._PERCENT_COLUMNS
_PERCENT_COLUMNS ==
    {"Servicing Fee %", "Original Interest Rate", "Current Interest Rate",
     "Gross Margin", "Lifetime Maximum Rate (Ceiling)",
     "Lifetime Minimum Rate (Floor)", "Originator DTI",
     "Percentage of Down Payment from Borrower Own Funds",
     "Original AVM Confidence Score", "Most Recent AVM Confidence Score",
     "Original CLTV", "Original LTV"}

\* the float n / 100, which is no whole number.  The files of the model
\* have such cells in a column that is only ever asked whether it is blank.
Hundredths(i) == [kind |-> "hundredths", n |-> i, s |-> ""]

\* cleaned.replace(" ", "")
RECURSIVE RemoveSpaces(_)
RemoveSpaces(s) ==
    IF s = "" THEN ""
    ELSE (IF Head(s) = " " THEN "" ELSE <<Head(s)>>) \o RemoveSpaces(Tail(s))

\* re.search(r"-?\d+(?:\.\d+)?", cleaned), for texts without sign and
\* point: the first run of digits, "" if there is none
RECURSIVE FirstDigitRun(_, _)
FirstDigitRun(s, run) ==
    IF s = "" THEN run
    ELSE IF IsDigit(Head(s)) THEN FirstDigitRun(Tail(s), run \o <<Head(s)>>)
    ELSE IF run # "" THEN run
    ELSE FirstDigitRun(Tail(s), run)

\* io._coerce_numeric_value, for the cell values of the model (texts of
\* letters, digits and spaces)
_coerce_numeric_value(value) ==
    IF value.kind = "none" THEN PyNone
    ELSE IF value.kind # "str" THEN value
    ELSE LET cleaned == RemoveSpaces(StrStrip(value.s))
             found == FirstDigitRun(cleaned, "")
         IN  IF StrStrip(value.s) = "" THEN PyNone
             ELSE IF cleaned # "" /\ AllDigits(cleaned)
                  THEN Num(DigitsValue(cleaned, 0))
             ELSE IF found # "" THEN Num(DigitsValue(found, 0))
             ELSE PyNone

\* io._coerce_percent_value, for the cell values of the model (no text of
\* the model holds a percent sign)
_coerce_percent_value(value) ==
    LET numeric == _coerce_numeric_value(value)
    IN  IF value.kind = "none" THEN PyNone
        ELSE IF numeric.kind = "none" THEN PyNone
        ELSE IF numeric.kind = "num" /\ (numeric.n > 2 \/ numeric.n < -2)
             THEN Hundredths(numeric.n)
        ELSE numeric

\* df[column] = df[column].apply(coerce) for every listed column of the
\* frame, coerce being _coerce_percent_value or _coerce_numeric_value: the
\* cells are replaced by what coerce returns, and pandas stores None as NaN
\* in a column that holds a float
CoerceColumns(cols, rows, listed, percent) ==
    LET cell(r, c) == IF percent THEN _coerce_percent_value(rows[r][c])
                      ELSE _coerce_numeric_value(rows[r][c])
        holds_float(c) == \E r \in 1..Len(rows) : cell(r, c).kind # "none"
    IN  List([r \in 1..Len(rows) |->
                 List([c \in 1..Len(cols) |->
                          IF cols[c] \notin listed THEN rows[r][c]
                          ELSE IF cell(r, c).kind = "none" /\ holds_float(c)
                               THEN PyNaN
                          ELSE cell(r, c)])])

\* io._coerce_percent_columns and io._coerce_numeric_columns
_coerce_percent_columns(cols, rows) ==
    CoerceColumns(cols, rows, _PERCENT_COLUMNS, TRUE)
_coerce_numeric_columns(cols, rows) ==
    CoerceColumns(cols, rows, _NUMERIC_COLUMNS, FALSE)

\* df[df["Loan Number"].notna()]: the positions of the rows that stay
KeptRows(cols, rows) ==
    SelectSeq(List([r \in 1..Len(rows) |-> r]),
              LAMBDA r : ("Loan Number" \in {cols[c] : c \in 1..Len(cols)})
                             => ~PdIsNa(CellOf(cols, rows[r], "Loan Number")))

\* io.read_tape: the rows and the index of the frame it returns, for the
\* frame pd.read_csv / pd.read_excel produced.  The rows that stay keep
\* their index labels.
read_tape(cols, rows, idx) ==
    LET kept == KeptRows(cols, rows)
        stay == List([k \in 1..Len(kept) |-> rows[kept[k]]])
    IN  [tape |-> _coerce_numeric_columns(cols,
                      _coerce_percent_columns(cols, stay)),
         index |-> List([k \in 1..Len(kept) |-> idx[kept[k]]])]

\* cli.run is called: the file holds a frame of up to MaxFileRows rows
InitCli ==
    /\ columns \in FileHeaders
    /\ \E n \in 0..MaxFileRows :
         /\ index = List([r \in 1..n |-> r - 1])
         /\ \E first \in 0..(Len(CellPalette) - 1), step \in RowSteps :
              tape = List([r \in 1..n |->
                              PaletteRow(first + (r - 1) * step,
                                         Len(columns))])
    /\ pc = "file"
    /\ normalized_map = <<>>
    /\ canonical_map = <<>>
    /\ loan_number_column = Unresolved
    /\ plans = <<>>
    /\ rule_pos = 1
    /\ issues = <<>>
    /\ warnings = <<>>
    /\ missing_required_records = <<>>
    /\ rule_summary = <<>>
    /\ warning_summary = <<>>
    /\ skipped_rules = <<>>
    /\ result = NoResult
    /\ calls = <<>>
    /\ masks = <<>>
    /\ events_used = MaxEvents
    /\ escaped = ""
    /\ query = ""
    /\ answer = Unresolved
    /\ signature = NoFunction
    /\ previous = <<>>
    /\ report = NoReport

\* cli.run, line 43: tape_df = read_tape(tape_path)
ReadTape ==
    /\ pc = "file"
    /\ tape' = read_tape(columns, tape, index).tape
    /\ index' = read_tape(columns, tape, index).index
    /\ pc' = "loaded"
    /\ UNCHANGED <<columns, normalized_map, canonical_map, loan_number_column,
                   plans, rule_pos, issues, warnings,
                   missing_required_records, rule_summary, warning_summary,
                   skipped_rules, result, calls, masks, events_used, escaped,
                   query, answer, signature, previous, report>>

\* cli.run, line 45, and run_validations, lines 129-137: the column maps,
\* the empty buckets and the loan-number column.  The bindings the loop
\* will compute are tabulated here, as in Init.
RunValidations ==
    /\ pc = "loaded"
    /\ normalized_map' = _build_column_maps(columns).normalized_map
    /\ canonical_map' = _build_column_maps(columns).canonical_map
    /\ loan_number_column' =
           _resolve_column_name("loan_number", normalized_map', canonical_map')
    /\ plans' = List([i \in 1..Len(get_validations_registry) |->
                          PlanRule(get_validations_registry[i],
                                   normalized_map', canonical_map')])
    /\ pc' = "running"
    /\ UNCHANGED <<columns, index, tape, rule_pos, issues, warnings,
                   missing_required_records, rule_summary, warning_summary,
                   skipped_rules, result, calls, masks, events_used, escaped,
                   query, answer, signature, previous, report>>

\* what datetime.now(timezone.utc) returned on line 39
RunTimestamps == {"20261101_000000", "20261101_000001"}

\* cli.run, line 46: results["generated_at"] = run_timestamp
Stamp ==
    /\ pc = "done"
    /\ \E run_timestamp \in RunTimestamps :
           result' = ("generated_at" :> run_timestamp) @@ result
    /\ pc' = "stamped"
    /\ UNCHANGED <<columns, index, tape, normalized_map, canonical_map,
                   loan_number_column, plans, rule_pos, issues, warnings,
                   missing_required_records, rule_summary, warning_summary,
                   skipped_rules, calls, masks, events_used, escaped, query,
                   answer, signature, previous, report>>

\* Faulty variant of write_report: the issue total is the number of issue
\* records alone
write_report_issues_only(results) ==
    [row_count |-> results.row_count,
     issue_count |-> Len(results.issues),
     warning_count |-> Len(results.warnings),
     executed_rules |->
         Len(results.rule_summary) + Len(results.warning_summary),
     skipped_rules |-> Len(results.skipped_rules)]

\* report.write_report, lines 124-152: the values of the summary sheet
write_report(results) ==
    [row_count |-> results.row_count,
     issue_count |->
         Len(results.issues) + Len(results.missing_required_fields),
     warning_count |-> Len(results.warnings),
     executed_rules |->
         Len(results.rule_summary) + Len(results.warning_summary),
     skipped_rules |-> Len(results.skipped_rules)]

\* cli.run, line 48: write_report(results, output_path)
WriteReport ==
    /\ pc = "stamped"
    /\ report' = write_report(result)
    /\ pc' = "reported"
    /\ UNCHANGED <<columns, index, tape, normalized_map, canonical_map,
                   loan_number_column, plans, rule_pos, issues, warnings,
                   missing_required_records, rule_summary, warning_summary,
                   skipped_rules, result, calls, masks, events_used, escaped,
                   query, answer, signature, previous>>

NextCli ==
    \/ ReadTape
    \/ RunValidations
    \/ SkipRule
    \/ RunMissingRequired
    \/ RunRule
    \/ Return
    \/ Stamp
    \/ WriteReport

SpecCli == InitCli /\ [][NextCli]_vars

(***************************************************************************)
(* Properties of run_validations.                                          *)
(***************************************************************************)
MissingRequiredRule == "validate_missing_required_fields"

\* how many entries of recs carry the rule name
CountRule(recs, rule_name) ==
    Cardinality({i \in 1..Len(recs) : recs[i].rule = rule_name})

\* the rows of the calls of a rule, in call order
RowsCalled(rule_name) ==
    LET own == SelectSeq(calls, LAMBDA c : c.rule = rule_name)
    IN  [k \in 1..Len(own) |-> own[k].row]

\* the rule's loop iteration is over and the loop has moved on
Processed(i) == i < rule_pos

\* C1: once run_validations has returned, every rule of the registry appears
\* exactly once in rule_summary, warning_summary and skipped_rules taken
\* together.
C1_EveryRuleInExactlyOneSummary ==
    pc = "done" =>
        \A i \in 1..Len(get_validations_registry) :
            CountRule(result.rule_summary, get_validations_registry[i])
              + CountRule(result.warning_summary, get_validations_registry[i])
              + CountRule(result.skipped_rules, get_validations_registry[i]) = 1

\* a run on a tape with rows returned with an executed issue rule, an
\* executed warning rule and skipped rules
C1_Witness ==
    /\ pc = "done"
    /\ Len(tape) > 0
    /\ result.rule_summary # <<>>
    /\ result.warning_summary # <<>>
    /\ result.skipped_rules # <<>>

\* C2: when the predicate of a rule evaluated through apply_rule (every
\* runnable rule but the missing-required-fields rule) raises an exception
\* for a row, that row is flagged, every other row keeps what the predicate
\* returned for it, and the mask has one entry per tape row, the rows having
\* been evaluated in order.
C2_RaisingRowIsFlagged ==
    \A k \in 1..Len(calls) :
        (/\ calls[k].outcome = "Raise"
         /\ calls[k].rule # MissingRequiredRule
         /\ calls[k].rule \in DOMAIN masks) =>
            /\ Len(masks[calls[k].rule]) = Len(tape)
            /\ RowsCalled(calls[k].rule) = [r \in 1..Len(tape) |-> r]
            /\ masks[calls[k].rule][calls[k].row] = TRUE
            /\ \A q \in 1..Len(calls) :
                   (calls[q].rule = calls[k].rule
                      /\ calls[q].outcome \in {"True", "False"}) =>
                       masks[calls[q].rule][calls[q].row]
                           = (calls[q].outcome = "True")

\* a predicate raised on one row and returned False on another row of the
\* same rule, and the rule has been recorded
C2_Witness ==
    \E k, q \in 1..Len(calls) :
        /\ calls[k].rule # MissingRequiredRule
        /\ calls[k].rule \in DOMAIN masks
        /\ calls[q].rule = calls[k].rule
        /\ calls[k].outcome = "Raise"
        /\ calls[q].outcome = "False"
        /\ masks[calls[k].rule][calls[k].row]
        /\ ~masks[calls[k].rule][calls[q].row]

\* C3: no exception raised by a predicate leaves run_validations (violated:
\* the missing-required-fields rule is applied without a handler)
C3_NoExceptionEscapes ==
    ~(pc = "raised" /\ escaped = "Exception")

\* C4: a debugger quit or an interrupt raised inside a predicate call ends
\* the run at that call: it is the last call, it leaves run_validations and
\* nothing is returned (violated: a predicate whose body is wrapped in a bare
\* "except:" turns the signal into its handler's value)
C4_AbortSignalPropagates ==
    \A k \in 1..Len(calls) :
        calls[k].event \in {"BdbQuit", "KeyboardInterrupt"} =>
            /\ k = Len(calls)
            /\ pc = "raised"
            /\ escaped = calls[k].event
            /\ result = NoResult

\* the position of a rule in the registry
RuleIndex(rule_name) ==
    CHOOSE i \in 1..Len(get_validations_registry) :
        get_validations_registry[i] = rule_name

\* the declared parameters of the i-th rule
Params(i) == FunctionNamed(get_validations_registry[i]).params

IsFixed(i) == FunctionNamed(get_validations_registry[i]).varargs = ""

\* the parameters of the i-th rule that resolve to no column / to a column
UnresolvedParams(i) ==
    {j \in 1..Len(Params(i)) : plans[i].param_columns[j] = Unresolved}
ResolvedParams(i) == (1..Len(Params(i))) \ UnresolvedParams(i)

\* C5: a fixed-parameter rule outside the allow-list with an unresolved
\* parameter gets exactly one skipped_rules record, with reason
\* missing_columns; its predicate is never called and it has no issue
\* record, no warning record and no summary entry.
C5_UnresolvedRuleIsSkipped ==
    \A i \in 1..Len(get_validations_registry) :
        (/\ Processed(i)
         /\ IsFixed(i)
         /\ get_validations_registry[i] \notin _ALLOW_MISSING_PARAM_RULES
         /\ UnresolvedParams(i) # {}) =>
            /\ CountRule(skipped_rules, get_validations_registry[i]) = 1
            /\ \A k \in 1..Len(skipped_rules) :
                   skipped_rules[k].rule = get_validations_registry[i] =>
                       skipped_rules[k].reason = "missing_columns"
            /\ RowsCalled(get_validations_registry[i]) = <<>>
            /\ CountRule(issues, get_validations_registry[i]) = 0
            /\ CountRule(warnings, get_validations_registry[i]) = 0
            /\ CountRule(rule_summary, get_validations_registry[i]) = 0
            /\ CountRule(warning_summary, get_validations_registry[i]) = 0
            /\ pc = "done" =>
                   /\ CountRule(result.skipped_rules,
                                get_validations_registry[i]) = 1
                   /\ CountRule(result.issues, get_validations_registry[i]) = 0
                   /\ CountRule(result.warnings,
                                get_validations_registry[i]) = 0
                   /\ CountRule(result.rule_summary,
                                get_validations_registry[i]) = 0
                   /\ CountRule(result.warning_summary,
                                get_validations_registry[i]) = 0

\* a run on a tape with rows returned, with a rule outside the allow-list
\* of which one parameter resolved and another did not
C5_Witness ==
    /\ pc = "done"
    /\ Len(tape) > 0
    /\ \E i \in 1..Len(get_validations_registry) :
           /\ IsFixed(i)
           /\ get_validations_registry[i] \notin _ALLOW_MISSING_PARAM_RULES
           /\ UnresolvedParams(i) # {}
           /\ ResolvedParams(i) # {}
           /\ CountRule(result.skipped_rules, get_validations_registry[i]) = 1

\* the argument list the i-th rule is owed for row r: per declared
\* parameter, the row's cell of the resolved column, or None
ExpectedArguments(i, r) ==
    [j \in 1..Len(Params(i)) |->
        IF j \in ResolvedParams(i)
        THEN tape[r][ColumnPos(columns, plans[i].param_columns[j])]
        ELSE PyNone]

\* C6: a fixed-parameter rule of the allow-list is never skipped; once its
\* iteration is over it has been called for every row, in row order, each
\* time with one argument per declared parameter in declared order: the
\* row's cell of the resolved column, or None for an unresolved parameter.
C6_AllowListRuleGetsPlaceholders ==
    \A i \in 1..Len(get_validations_registry) :
        (IsFixed(i)
           /\ get_validations_registry[i] \in _ALLOW_MISSING_PARAM_RULES) =>
            /\ CountRule(skipped_rules, get_validations_registry[i]) = 0
            /\ Processed(i) =>
                   /\ RowsCalled(get_validations_registry[i])
                          = [r \in 1..Len(tape) |-> r]
                   /\ \A k \in 1..Len(calls) :
                          calls[k].rule = get_validations_registry[i] =>
                              calls[k].values
                                  = ExpectedArguments(i, calls[k].row)

\* an allow-list rule has been called with None for an unresolved parameter
\* that is declared before a resolved one, whose cell is not None
C6_Witness ==
    \E i \in 1..Len(get_validations_registry) :
        /\ Processed(i)
        /\ IsFixed(i)
        /\ get_validations_registry[i] \in _ALLOW_MISSING_PARAM_RULES
        /\ \E k \in 1..Len(calls) :
               /\ calls[k].rule = get_validations_registry[i]
               /\ \E u \in UnresolvedParams(i), v \in ResolvedParams(i) :
                      /\ u < v
                      /\ calls[k].values[u] = PyNone
                      /\ calls[k].values[v] # PyNone

MissingRequiredIndex == RuleIndex(MissingRequiredRule)

\* the declared fields of the missing-required-fields rule that are blank
\* in row r
BlankFields(r) ==
    {j \in 1..Len(Params(MissingRequiredIndex)) :
        _is_blank(ExpectedArguments(MissingRequiredIndex, r)[j])}

\* the label a record carries for declared field j
FieldLabel(j) ==
    IF j \in UnresolvedParams(MissingRequiredIndex)
    THEN DictGet(_PARAM_ALIASES, Params(MissingRequiredIndex)[j],
                 Params(MissingRequiredIndex)[j])
    ELSE plans[MissingRequiredIndex].param_columns[j]

\* the (row, declared field) pairs with a blank value, from (r, j) on, in
\* row order then declared-field order
RECURSIVE BlankPairs(_, _)
BlankPairs(r, j) ==
    IF r > Len(tape) THEN <<>>
    ELSE IF j > Len(Params(MissingRequiredIndex)) THEN BlankPairs(r + 1, 1)
    ELSE (IF _is_blank(ExpectedArguments(MissingRequiredIndex, r)[j])
          THEN << <<r, j>> >> ELSE <<>>)
             \o BlankPairs(r, j + 1)

\* C7: once the missing-required-fields rule has run, the
\* missing_required_fields records are, in row order then declared-field
\* order, one record per (row, declared field) pair whose value is blank,
\* and the rule's issue_count is the number of these pairs.
C7_OneRecordPerBlankField ==
    Processed(MissingRequiredIndex) =>
        \E pairs \in {BlankPairs(1, 1)} :
            /\ Len(missing_required_records) = Len(pairs)
            /\ \A k \in 1..Len(pairs) :
                   missing_required_records[k] =
                       [Missing_Required_Field |-> FieldLabel(pairs[k][2]),
                        Loan_Number |->
                            IF loan_number_column # Unresolved
                            THEN tape[pairs[k][1]][ColumnPos(columns,
                                                      loan_number_column)]
                            ELSE PyNone]
            /\ CountRule(rule_summary, MissingRequiredRule) = 1
            /\ \A k \in 1..Len(rule_summary) :
                   rule_summary[k].rule = MissingRequiredRule =>
                       rule_summary[k].issue_count = Len(pairs)
            /\ pc = "done" =>
                   /\ result.missing_required_fields = missing_required_records
                   /\ \A k \in 1..Len(result.rule_summary) :
                          result.rule_summary[k].rule = MissingRequiredRule =>
                              result.rule_summary[k].issue_count = Len(pairs)

\* the rule has run on a tape with a row that has two blank fields or more
\* and a row that has none
C7_Witness ==
    /\ Processed(MissingRequiredIndex)
    /\ \E r, q \in 1..Len(tape) :
           /\ Cardinality(BlankFields(r)) >= 2
           /\ BlankFields(q) = {}
    /\ Len(missing_required_records) >= 2
    /\ \E k \in 1..Len(rule_summary) :
           /\ rule_summary[k].rule = MissingRequiredRule
           /\ rule_summary[k].issue_count = Len(missing_required_records)

\* how many missing-required records carry the label
CountLabel(label) ==
    Cardinality({k \in 1..Len(missing_required_records) :
                    missing_required_records[k].Missing_Required_Field = label})

\* C8: the missing-required-fields rule is never skipped; once it has run,
\* every declared parameter that resolves to no column has one record per
\* tape row, labelled with the parameter's alias-substituted name, and the
\* records of a resolved parameter, one per row whose cell is blank, are
\* labelled with the tape's own column header.
C8_UnresolvedFieldsAlwaysBlank ==
    /\ CountRule(skipped_rules, MissingRequiredRule) = 0
    /\ pc = "done" => CountRule(result.rule_summary, MissingRequiredRule) = 1
    /\ Processed(MissingRequiredIndex) =>
           \A j \in 1..Len(Params(MissingRequiredIndex)) :
               IF j \in UnresolvedParams(MissingRequiredIndex)
               THEN CountLabel(DictGet(_PARAM_ALIASES,
                                       Params(MissingRequiredIndex)[j],
                                       Params(MissingRequiredIndex)[j]))
                        = Len(tape)
               ELSE \E c \in 1..Len(columns) :
                        /\ columns[c] =
                               plans[MissingRequiredIndex].param_columns[j]
                        /\ CountLabel(columns[c]) =
                               Cardinality({r \in 1..Len(tape) :
                                               _is_blank(tape[r][c])})

\* the rule has run on a tape with rows of which one declared parameter is
\* unresolved and another resolves to a column with a blank cell
C8_Witness ==
    /\ Processed(MissingRequiredIndex)
    /\ Len(tape) > 0
    /\ UnresolvedParams(MissingRequiredIndex) # {}
    /\ \E j \in ResolvedParams(MissingRequiredIndex) :
           CountLabel(plans[MissingRequiredIndex].param_columns[j]) > 0

(***************************************************************************)
(* Properties of the resolver (specification SpecResolve).                 *)
(***************************************************************************)
\* the positions of the columns with the normalized / canonical key of n
NormalizedHits(n) ==
    {i \in 1..Len(columns) : _normalize_name(columns[i]) = _normalize_name(n)}
CanonicalHits(n) ==
    {i \in 1..Len(columns) : _canonical_key(columns[i]) = _canonical_key(n)}

\* the first position of a non-empty set of positions
First(S) == CHOOSE i \in S : \A k \in S : i <= k

\* C9: _resolve_column_name returns the first column, in tape order, with
\* the normalized key of the name if there is one, whatever columns share
\* its canonical key; otherwise the first column with the canonical key of
\* the name; otherwise None.
C9_NormalizedBeforeCanonical ==
    pc = "column_resolved" =>
        answer = (IF NormalizedHits(query) # {}
                  THEN columns[First(NormalizedHits(query))]
                  ELSE IF CanonicalHits(query) # {}
                  THEN columns[First(CanonicalHits(query))]
                  ELSE Unresolved)

\* the name was resolved to a column with its normalized key although an
\* earlier column has its canonical key
C9_Witness ==
    /\ pc = "column_resolved"
    /\ NormalizedHits(query) # {}
    /\ First(CanonicalHits(query)) < First(NormalizedHits(query))
    /\ answer = columns[First(NormalizedHits(query))]
    /\ answer # columns[First(CanonicalHits(query))]

\* the name resolution starts from: the alias of an exact key of the alias
\* map, any other name unchanged
Substituted(n) ==
    IF n \in DOMAIN _PARAM_ALIASES THEN _PARAM_ALIASES[n] ELSE n

\* C10: _resolve_param_name resolves the alias of a parameter name that is
\* an exact key of the alias map and resolves any other name unchanged;
\* "oltv" does not resolve to the column "Original LTV" and
\* "original_loan_amount" resolves to the column "Original Loan Amount".
C10_AliasesAreExact ==
    pc = "param_resolved" =>
        /\ answer = (IF NormalizedHits(Substituted(query)) # {}
                     THEN columns[First(NormalizedHits(Substituted(query)))]
                     ELSE IF CanonicalHits(Substituted(query)) # {}
                     THEN columns[First(CanonicalHits(Substituted(query)))]
                     ELSE Unresolved)
        /\ query = "oltv" => answer # "Original LTV"
        /\ (query = "original_loan_amount"
              /\ \E i \in 1..Len(columns) :
                     columns[i] = "Original Loan Amount") =>
               answer = "Original Loan Amount"

\* an aliased parameter was resolved through its alias although a column
\* carries the parameter's own name
C10_Witness ==
    /\ pc = "param_resolved"
    /\ query \in DOMAIN _PARAM_ALIASES
    /\ NormalizedHits(query) # {}
    /\ NormalizedHits(Substituted(query)) # {}
    /\ answer = columns[First(NormalizedHits(Substituted(query)))]
    /\ answer # columns[First(NormalizedHits(query))]

\* the lists of a column map, one after the other
RECURSIVE ListsOf(_, _)
ListsOf(map, keys) ==
    IF keys = {} THEN <<>>
    ELSE LET k == CHOOSE key \in keys : TRUE
         IN  map[k] \o ListsOf(map, keys \ {k})

\* how often the column name occurs in a list of names
Occurrences(names, col) ==
    Cardinality({j \in 1..Len(names) : names[j] = col})

\* the list is a selection of the tape columns, in tape column order
InTapeOrder(names) ==
    \E pos \in [1..Len(names) -> 1..Len(columns)] :
        /\ \A j \in 1..Len(names) : columns[pos[j]] = names[j]
        /\ \A j \in 1..(Len(names) - 1) : pos[j] < pos[j + 1]

\* every tape column is in the map as often as it is in the tape, under the
\* key it produces, and the list of every key is in tape column order
MapHoldsEveryColumn(map, canonical) ==
    /\ \A i \in 1..Len(columns) :
           LET key == IF canonical THEN _canonical_key(columns[i])
                      ELSE _normalize_name(columns[i])
           IN  /\ Occurrences(ListsOf(map, DOMAIN map), columns[i])
                      = Occurrences(columns, columns[i])
               /\ key \in DOMAIN map
               /\ \E j \in 1..Len(map[key]) : map[key][j] = columns[i]
    /\ Len(ListsOf(map, DOMAIN map)) = Len(columns)
    /\ \A k \in DOMAIN map : InTapeOrder(map[k])

\* C27: _resolve_column_name returns a tape column only if that column has
\* the normalized key or the canonical key of the name, and it returns None
\* exactly when no tape column has either; every tape column is in the
\* normalized map once and in the canonical map once, and the list of
\* every key is in tape column order.
C27_ResolutionSoundAndComplete ==
    /\ pc = "mapped" =>
           /\ MapHoldsEveryColumn(normalized_map, FALSE)
           /\ MapHoldsEveryColumn(canonical_map, TRUE)
    /\ pc = "column_resolved" =>
           /\ answer # Unresolved =>
                  \E i \in 1..Len(columns) :
                      /\ columns[i] = answer
                      /\ i \in NormalizedHits(query) \cup CanonicalHits(query)
           /\ (answer = Unresolved)
                  = (NormalizedHits(query) \cup CanonicalHits(query) = {})

\* a name was resolved to the first of two different tape columns with one
\* normalized key
C27_Witness ==
    /\ pc = "column_resolved"
    /\ Len(columns) = 2
    /\ columns[1] # columns[2]
    /\ _normalize_name(columns[1]) = _normalize_name(columns[2])
    /\ answer = columns[1]

(***************************************************************************)
(* Properties of the name functions (specification SpecNames).             *)
(***************************************************************************)
\* lower-case letters, digits and single underscores only, no underscore
\* at either end
WellFormed(t) ==
    /\ \A i \in 1..Len(t) :
           CharAt(t, i) \in Chars(LowerChars) \cup DigitSet \cup {"_"}
    /\ \A i \in 1..(Len(t) - 1) : SubSeq(t, i, i + 1) # "__"
    /\ t # "" => (CharAt(t, 1) # "_" /\ CharAt(t, Len(t)) # "_")

\* C11: _normalize_name gives every name a result that is lower-case, made
\* of letters, digits and single underscores, with no underscore at either
\* end; normalizing the result again gives the same result.
C11_NormalizeIsIdempotent ==
    /\ pc \in {"normalized", "renormalized"} => WellFormed(answer)
    /\ pc = "renormalized" => answer = _normalize_name(query)

\* a name with a leading underscore, an upper-case letter and a blank in
\* the middle has been normalized twice
C11_Witness ==
    /\ pc = "renormalized"
    /\ query = "_A b"
    /\ answer = "a_b"

\* the kept tokens from position i on, replaced where the abbreviation
\* table has them, concatenated
RECURSIVE KeptFrom(_, _)
KeptFrom(tokens, i) ==
    IF i > Len(tokens) THEN ""
    ELSE (IF tokens[i] = "" \/ tokens[i] \in _STOPWORDS THEN ""
          ELSE IF tokens[i] \in DOMAIN _CANONICAL_REPLACEMENTS
          THEN _CANONICAL_REPLACEMENTS[tokens[i]]
          ELSE tokens[i]) \o KeptFrom(tokens, i + 1)

\* C12: _canonical_key concatenates, in their order and with no separator,
\* the tokens of the normalized name that are neither empty nor stopwords,
\* a token of the abbreviation table replaced by its long form and every
\* other token unchanged; "Yrs At Industry", "Years in Industry" and
\* "YRS_INDUSTRY" have the same key.
C12_CanonicalKeepsTokens ==
    pc = "canonical" =>
        /\ answer = KeptFrom(SplitUnderscore(_normalize_name(query), ""), 1)
        /\ query \in {"Yrs At Industry", "Years in Industry", "YRS_INDUSTRY"}
               => answer = "yearsindustry"

\* the key of a phrase with an abbreviation, a stopword and a plain word
C12_Witness ==
    /\ pc = "canonical"
    /\ query = "Yrs At Industry"
    /\ answer = "yearsindustry"

(***************************************************************************)
(* Properties of the binding step (specification SpecBind).                *)
(***************************************************************************)
\* the column a name resolves to without alias substitution: the first
\* column with its normalized key, else the first with its canonical key
ColumnFor(n) ==
    IF NormalizedHits(n) # {} THEN columns[First(NormalizedHits(n))]
    ELSE IF CanonicalHits(n) # {} THEN columns[First(CanonicalHits(n))]
    ELSE Unresolved

\* the names, each followed by ", " except the last
RECURSIVE CommaList(_)
CommaList(names) ==
    IF names = <<>> THEN ""
    ELSE Head(names) \o (IF Len(names) > 1 THEN ", " ELSE "")
             \o CommaList(Tail(names))

\* the field list configured for a variable-arity rule
ConfiguredFields(rule_name) ==
    IF rule_name \in DOMAIN _VARARGS_RULE_COLUMNS
    THEN _VARARGS_RULE_COLUMNS[rule_name]
    ELSE <<>>

UnresolvedFields(rule_name) ==
    SelectSeq(ConfiguredFields(rule_name),
              LAMBDA n : ColumnFor(n) = Unresolved)

\* C13: a variable-arity rule without a configured field list is skipped
\* with reason missing_varargs_mapping; one with a configured list of which
\* a field resolves to no column (no alias substitution) is skipped with
\* reason missing_columns, the record listing every unresolved field in
\* configured order; otherwise it is called with the row's cells of the
\* resolved columns in configured order.
C13_VarargsRuleBinding ==
    (signature.varargs # "" /\ pc \in {"skipped", "applied"}) =>
        IF ConfiguredFields(query) = <<>>
        THEN /\ pc = "skipped"
             /\ calls = <<>>
             /\ Len(skipped_rules) = 1
             /\ skipped_rules[1].rule = query
             /\ skipped_rules[1].reason = "missing_varargs_mapping"
        ELSE IF UnresolvedFields(query) # <<>>
        THEN /\ pc = "skipped"
             /\ calls = <<>>
             /\ Len(skipped_rules) = 1
             /\ skipped_rules[1].rule = query
             /\ skipped_rules[1].reason = "missing_columns"
             /\ skipped_rules[1].missing_columns
                    = CommaList(UnresolvedFields(query))
        ELSE /\ pc = "applied"
             /\ skipped_rules = <<>>
             /\ Len(calls) = 1
             /\ calls[1].values =
                    [i \in 1..Len(ConfiguredFields(query)) |->
                        tape[1][ColumnPos(columns,
                                   ColumnFor(ConfiguredFields(query)[i]))]]

\* a variable-arity rule with a configured list has been skipped on a tape
\* where some of its fields resolve and two or more do not
C13_Witness ==
    /\ pc = "skipped"
    /\ signature.varargs # ""
    /\ skipped_rules[1].reason = "missing_columns"
    /\ Len(UnresolvedFields(query)) >= 2
    /\ Len(UnresolvedFields(query)) < Len(ConfiguredFields(query))

(***************************************************************************)
(* Properties of the skip records and the detail records of a run          *)
(* (specification Spec).                                                   *)
(***************************************************************************)
\* the two keys of every configured field of a variable-arity rule
FieldKeys ==
    [n \in UNION {{_VARARGS_RULE_COLUMNS[r][j] :
                      j \in 1..Len(_VARARGS_RULE_COLUMNS[r])} :
                  r \in DOMAIN _VARARGS_RULE_COLUMNS} |->
        [normalized |-> _normalize_name(n), canonical |-> _canonical_key(n)]]

\* the declared parameters of the i-th rule (the configured fields of a
\* variable-arity rule) that resolve to no column, in declared order
DeclaredUnresolved(i) ==
    IF IsFixed(i)
    THEN SelectByFlag(Params(i),
                      [j \in 1..Len(Params(i)) |->
                          j \in UnresolvedParams(i)])
    ELSE SelectSeq(ConfiguredFields(get_validations_registry[i]),
                   LAMBDA n : /\ FieldKeys[n].normalized
                                     \notin DOMAIN normalized_map
                              /\ FieldKeys[n].canonical
                                     \notin DOMAIN canonical_map)

DeclaredCount(i) ==
    IF IsFixed(i) THEN Len(Params(i))
    ELSE Len(ConfiguredFields(get_validations_registry[i]))

\* every record of recs with reason missing_columns lists the unresolved
\* parameters of its rule, by their declared names
ListsUnresolved(recs) ==
    \A k \in 1..Len(recs) :
        recs[k].reason = "missing_columns" =>
            /\ DeclaredUnresolved(RuleIndex(recs[k].rule)) # <<>>
            /\ recs[k].missing_columns
                   = CommaList(DeclaredUnresolved(RuleIndex(recs[k].rule)))

\* C14: in the returned result, the missing_columns field of every skip
\* record with reason missing_columns is the comma-joined list of the
\* rule's unresolved parameters, by their declared names, each once and in
\* declared order, with no resolved parameter in it.
C14_SkipRecordListsUnresolved ==
    pc = "done" => ListsUnresolved(result.skipped_rules)

\* a run returned with a skipped rule of which one parameter resolved and
\* another did not, and with a skip record that lists several names
C14_Witness ==
    /\ pc = "done"
    /\ \E k \in 1..Len(result.skipped_rules) :
           /\ IsFixed(RuleIndex(result.skipped_rules[k].rule))
           /\ Len(DeclaredUnresolved(RuleIndex(result.skipped_rules[k].rule)))
                  < DeclaredCount(RuleIndex(result.skipped_rules[k].rule))
    /\ \E k \in 1..Len(result.skipped_rules) :
           Len(DeclaredUnresolved(RuleIndex(result.skipped_rules[k].rule))) >= 2

\* the names of a list, each replaced by its alias if it has one
DisplayForms(names) ==
    [j \in 1..Len(names) |-> Substituted(names[j])]

\* C15: in the returned result, the skip record of a fixed-parameter rule
\* names every unresolved parameter by its alias-substituted form
\* (violated: line 185 collects param.name, the raw spelling)
C15_SkipRecordUsesAlias ==
    pc = "done" =>
        \A k \in 1..Len(result.skipped_rules) :
            (/\ result.skipped_rules[k].reason = "missing_columns"
             /\ IsFixed(RuleIndex(result.skipped_rules[k].rule))) =>
                result.skipped_rules[k].missing_columns =
                    CommaList(DisplayForms(DeclaredUnresolved(
                        RuleIndex(result.skipped_rules[k].rule))))

\* the i-th rule was run through apply_rule
Executed(i) ==
    /\ ~plans[i].skip
    /\ get_validations_registry[i] # MissingRequiredRule

\* the rows the i-th rule flagged, and the k-th of them in tape order
FlaggedRows(i) ==
    {r \in 1..Len(tape) : masks[get_validations_registry[i]][r]}
FlaggedRow(i, k) ==
    CHOOSE r \in FlaggedRows(i) :
        Cardinality({q \in FlaggedRows(i) : q <= r}) = k

\* the columns the i-th rule resolved, in declared order
ResolvedColumns(i) ==
    IF IsFixed(i)
    THEN SelectSeq(plans[i].param_columns, LAMBDA c : c # Unresolved)
    ELSE [j \in 1..Len(ConfiguredFields(get_validations_registry[i])) |->
             LET keys ==
                     FieldKeys[ConfiguredFields(get_validations_registry[i])[j]]
             IN  IF keys.normalized \in DOMAIN normalized_map
                 THEN normalized_map[keys.normalized][1]
                 ELSE canonical_map[keys.canonical][1]]

\* the records of recs that carry the rule name, in order
RecordsOf(recs, rule_name) == SelectSeq(recs, LAMBDA rec : rec.rule = rule_name)

\* the issue_count of the rule's entry in a summary
IssueCount(summary, rule_name) ==
    summary[CHOOSE k \in 1..Len(summary) : summary[k].rule = rule_name]
        .issue_count

\* the detail records and the summary of the i-th rule
DetailsOf(i) ==
    RecordsOf(IF get_validations_registry[i] \in _WARNING_RULES
              THEN result.warnings ELSE result.issues,
              get_validations_registry[i])
SummaryOf(i) ==
    IF get_validations_registry[i] \in _WARNING_RULES
    THEN result.warning_summary ELSE result.rule_summary

\* C16: in the returned result, the issue_count of every rule run through
\* apply_rule is the number of rows whose outcome is True and the number of
\* its detail records (none when the count is 0); the k-th record carries the
\* rule name, the k-th flagged row, the comma-joined resolved columns and,
\* if the loan-number column resolved, that row's loan-number cell.
C16_CountMatchesDetailRecords ==
    pc = "done" =>
        \A i \in 1..Len(get_validations_registry) :
            Executed(i) =>
                /\ CountRule(SummaryOf(i), get_validations_registry[i]) = 1
                /\ IssueCount(SummaryOf(i), get_validations_registry[i])
                       = Cardinality(FlaggedRows(i))
                /\ Len(DetailsOf(i)) = Cardinality(FlaggedRows(i))
                /\ \A k \in 1..Len(DetailsOf(i)) :
                       DetailsOf(i)[k] =
                           [rule |-> get_validations_registry[i],
                            row_index |-> index[FlaggedRow(i, k)],
                            columns |-> CommaList(ResolvedColumns(i)),
                            loan_number |->
                                IF loan_number_column # Unresolved
                                THEN tape[FlaggedRow(i, k)][
                                         ColumnPos(columns, loan_number_column)]
                                ELSE NoKey]

\* a run returned with a rule that flagged one row of two and with a rule
\* that flagged none, on a tape whose loan-number column resolved
C16_Witness ==
    /\ pc = "done"
    /\ Len(tape) = 2
    /\ loan_number_column # Unresolved
    /\ \E i, j \in 1..Len(get_validations_registry) :
           /\ Executed(i)
           /\ Executed(j)
           /\ Cardinality(FlaggedRows(i)) = 1
           /\ Len(DetailsOf(i)) = 1
           /\ FlaggedRows(j) = {}
           /\ IssueCount(SummaryOf(j), get_validations_registry[j]) = 0

\* the outcomes of the calls of a rule
Outcomes(rule_name) ==
    {calls[k].outcome : k \in {q \in 1..Len(calls) : calls[q].rule = rule_name}}

\* every declared parameter (configured field) of the i-th rule resolved
AllResolved(i) == ~plans[i].skip /\ DeclaredUnresolved(i) = <<>>

\* C17, as stated: a rule run through apply_rule whose parameters all
\* resolve and whose predicate raises an exception for no row has issue
\* count 0 and no detail record (violated: a predicate that returns True
\* without raising flags the row)
C17_NoRaiseMeansNoIssue ==
    pc = "done" =>
        \A i \in 1..Len(get_validations_registry) :
            (/\ Executed(i)
             /\ AllResolved(i)
             /\ "Raise" \notin Outcomes(get_validations_registry[i])) =>
                /\ IssueCount(SummaryOf(i), get_validations_registry[i]) = 0
                /\ DetailsOf(i) = <<>>

\* C17: in the returned result, a rule run through apply_rule whose
\* parameters all resolve and whose predicate returns False for every row,
\* raising for none, has exactly one summary entry, with issue_count 0, and
\* no detail record.
C17_NoFlagMeansZeroCount ==
    pc = "done" =>
        \A i \in 1..Len(get_validations_registry) :
            (/\ Executed(i)
             /\ AllResolved(i)
             /\ Outcomes(get_validations_registry[i]) \subseteq {"False"}) =>
                /\ CountRule(SummaryOf(i), get_validations_registry[i]) = 1
                /\ IssueCount(SummaryOf(i), get_validations_registry[i]) = 0
                /\ CountRule(result.issues, get_validations_registry[i]) = 0
                /\ CountRule(result.warnings, get_validations_registry[i]) = 0

\* a run on a tape with two rows returned with a rule whose parameters all
\* resolve and whose predicate returned False for both rows
C17_Witness ==
    /\ pc = "done"
    /\ Len(tape) = 2
    /\ \E i \in 1..Len(get_validations_registry) :
           /\ Executed(i)
           /\ AllResolved(i)
           /\ Outcomes(get_validations_registry[i]) = {"False"}
           /\ IssueCount(SummaryOf(i), get_validations_registry[i]) = 0

RuleNames == {__all__[i] : i \in 1..Len(__all__)}

\* the rank of every rule name in the ascending order of names: the number
\* of names below it
NameRank == [n \in RuleNames |-> Cardinality({m \in RuleNames : StrLess(m, n)})]

\* rule name a is below rule name b
NameBelow(a, b) == NameRank[a] < NameRank[b]

\* the registry itself is in strictly ascending order of name
RegistryAscending ==
    \A i \in 1..(Len(get_validations_registry) - 1) :
        StrLess(get_validations_registry[i], get_validations_registry[i + 1])

\* the records are in strictly ascending order of rule name
AscendingByRule(recs) ==
    \A k \in 1..(Len(recs) - 1) : NameBelow(recs[k].rule, recs[k + 1].rule)

\* the records of a rule are contiguous, the rules in ascending order of
\* name, the records of a rule in tape row order
GroupedByRuleThenRow(recs) ==
    \A k \in 1..(Len(recs) - 1) :
        \/ NameBelow(recs[k].rule, recs[k + 1].rule)
        \/ /\ recs[k].rule = recs[k + 1].rule
           /\ recs[k].row_index < recs[k + 1].row_index

\* C19: the registry is iterated in ascending order of rule name and the
\* predicate calls follow it, one rule after the other, the rows of a rule
\* in tape order; in the returned result rule_summary, warning_summary and
\* skipped_rules are in ascending order of rule name, and issues and
\* warnings hold the records rule by rule in ascending order of rule name,
\* the records of a rule in tape row order.
C19_AscendingRuleOrder ==
    /\ RegistryAscending
    /\ \A k \in 1..(Len(calls) - 1) :
           \/ NameBelow(calls[k].rule, calls[k + 1].rule)
           \/ /\ calls[k].rule = calls[k + 1].rule
              /\ calls[k].row < calls[k + 1].row
    /\ pc = "done" =>
           /\ AscendingByRule(result.rule_summary)
           /\ AscendingByRule(result.warning_summary)
           /\ AscendingByRule(result.skipped_rules)
           /\ GroupedByRuleThenRow(result.issues)
           /\ GroupedByRuleThenRow(result.warnings)

\* a run returned with the issue records of two rules, one of them with a
\* record for each of two rows, and with several entries in rule_summary
\* and in skipped_rules
C19_Witness ==
    /\ pc = "done"
    /\ Len(result.rule_summary) >= 2
    /\ Len(result.skipped_rules) >= 2
    /\ \E k, l \in 1..Len(result.issues) :
           /\ k < l
           /\ result.issues[k].rule = result.issues[l].rule
           /\ result.issues[k].row_index < result.issues[l].row_index
    /\ \E k, l \in 1..Len(result.issues) :
           result.issues[k].rule # result.issues[l].rule

\* the number of entries a summary or a record list holds for a rule
EntriesOf(recs, rule_name) ==
    Cardinality({k \in 1..Len(recs) : recs[k].rule = rule_name})

\* C20: in the returned result every executed rule has its one summary entry
\* in warning_summary if its name is in the warning list and in rule_summary
\* otherwise, and none in the other summary; a rule run through apply_rule
\* has one detail record per flagged row in warnings if its name is in the
\* warning list and in issues otherwise; no rule name occurs both on the
\* issue side (rule_summary, issues) and on the warning side
\* (warning_summary, warnings).
C20_SeverityByRuleName ==
    pc = "done" =>
        \A i \in 1..Len(get_validations_registry) :
            LET name == get_validations_registry[i]
                warning == name \in _WARNING_RULES
                own_summary == IF warning THEN result.warning_summary
                               ELSE result.rule_summary
                other_summary == IF warning THEN result.rule_summary
                                 ELSE result.warning_summary
                own_records == IF warning THEN result.warnings
                               ELSE result.issues
                other_records == IF warning THEN result.issues
                                 ELSE result.warnings
            IN  /\ EntriesOf(other_summary, name) = 0
                /\ EntriesOf(other_records, name) = 0
                /\ ~plans[i].skip => EntriesOf(own_summary, name) = 1
                /\ Executed(i) =>
                       EntriesOf(own_records, name) = Cardinality(FlaggedRows(i))

\* a run returned with a flagged row of a warning rule and a flagged row of
\* a rule of the default severity
C20_Witness ==
    /\ pc = "done"
    /\ \E i, j \in 1..Len(get_validations_registry) :
           /\ Executed(i) /\ Executed(j)
           /\ get_validations_registry[i] \in _WARNING_RULES
           /\ get_validations_registry[j] \notin _WARNING_RULES
           /\ FlaggedRows(i) # {}
           /\ FlaggedRows(j) # {}
           /\ EntriesOf(result.warnings, get_validations_registry[i]) >= 1
           /\ EntriesOf(result.issues, get_validations_registry[j]) >= 1

\* C24: no step of run_validations changes the tape it was handed: the
\* columns, the index, the order of the rows and the cell values stay what
\* they were, with or without exceptions in the predicates and skipped
\* rules.  (The catalogue, the alias map, the warning list, the
\* tolerate-missing list and the varargs mapping are definitions of this
\* module: no statement of run_validations assigns or mutates them.)
C24_TapeOnlyRead ==
    [][columns' = columns /\ index' = index /\ tape' = tape]_vars

\* a run returned, on a tape with rows, after a predicate raised for a row,
\* with skipped rules and with flagged rows
C24_Witness ==
    /\ pc = "done"
    /\ tape # <<>>
    /\ events_used >= 1
    /\ result.skipped_rules # <<>>
    /\ result.issues # <<>>

\* the names of the callables of the rules module that start with validate_
ValidateCallables ==
    {ModuleFunctions[i].name : i \in 1..Len(ModuleFunctions)}
        \ {"_is_blank", "pmt"}

\* the names the registry holds
RegistryNames ==
    {get_validations_registry[i] : i \in 1..Len(get_validations_registry)}

\* the registry holds every validate_ callable once and nothing else
RegistryIsValidateCallables ==
    /\ RegistryNames = ValidateCallables
    /\ Len(get_validations_registry) = Cardinality(ValidateCallables)
    /\ \A n \in RegistryNames : SubSeq(n, 1, 9) = "validate_"
    /\ "pmt" \notin RegistryNames

\* C30: the registry holds exactly the callables of the rules module whose
\* names start with validate_, in ascending order of name; pmt, although in
\* __all__, is no rule: a run never plans, calls, skips or reports it.
C30_RegistryIsValidateCallables ==
    /\ RegistryIsValidateCallables
    /\ RegistryAscending
    /\ \E k \in 1..Len(__all__) : __all__[k] = "pmt"
    /\ Len(plans) = Cardinality(ValidateCallables)
    /\ \A k \in 1..Len(calls) : calls[k].rule \in ValidateCallables
    /\ pc = "done" =>
           /\ EntriesOf(result.rule_summary, "pmt") = 0
           /\ EntriesOf(result.warning_summary, "pmt") = 0
           /\ EntriesOf(result.skipped_rules, "pmt") = 0
           /\ Len(result.rule_summary) + Len(result.warning_summary)
                  + Len(result.skipped_rules) = Cardinality(ValidateCallables)

\* a run returned in which rules were called and rules were skipped
C30_Witness ==
    /\ pc = "done"
    /\ calls # <<>>
    /\ result.skipped_rules # <<>>
    /\ result.rule_summary # <<>>

\* the keys of every aliased parameter name and of its alias target
AliasKeys ==
    [n \in DOMAIN _PARAM_ALIASES |->
        [raw |-> _normalize_name(n),
         normalized |-> _normalize_name(_PARAM_ALIASES[n]),
         canonical |-> _canonical_key(_PARAM_ALIASES[n])]]

\* a tape column has the normalized or the canonical key of the alias target
\* of the parameter name / the normalized key of the name itself
TargetOnTape(n) ==
    \/ AliasKeys[n].normalized \in DOMAIN normalized_map
    \/ AliasKeys[n].canonical \in DOMAIN canonical_map
RawNameOnTape(n) == AliasKeys[n].raw \in DOMAIN normalized_map

\* on a tape whose only column is 'Application Date', the name
\* application_date resolves to the column and the parameter
\* application_date is unresolved
ApplicationDateMaps == _build_column_maps(<<"Application Date">>)
ApplicationDateResolved ==
    [name |-> _resolve_column_name("application_date",
                                   ApplicationDateMaps.normalized_map,
                                   ApplicationDateMaps.canonical_map),
     param |-> _resolve_param_name("application_date",
                                   ApplicationDateMaps.normalized_map,
                                   ApplicationDateMaps.canonical_map)]
ApplicationDateShadowed ==
    /\ ApplicationDateResolved.name = "Application Date"
    /\ ApplicationDateResolved.param = Unresolved

\* C28: a parameter that is a key of the alias map resolves exactly when a
\* tape column matches its alias target, whether or not a column matches
\* the parameter's own name; when none matches the target, a rule outside
\* the allow-list is skipped with reason missing_columns and not called,
\* and a rule of the allow-list is still called.
C28_AliasShadowsRawName ==
    /\ ApplicationDateShadowed
    /\ (signature.varargs = "" /\ pc \in {"skipped", "applied"}) =>
           \A j \in 1..Len(signature.params) :
               signature.params[j] \in DOMAIN _PARAM_ALIASES =>
                   /\ (plans[1].param_columns[j] = Unresolved)
                          = ~TargetOnTape(signature.params[j])
                   /\ ~TargetOnTape(signature.params[j]) =>
                          IF query \in _ALLOW_MISSING_PARAM_RULES
                          THEN pc = "applied" /\ Len(calls) = 1
                          ELSE /\ pc = "skipped"
                               /\ calls = <<>>
                               /\ Len(skipped_rules) = 1
                               /\ skipped_rules[1].rule = query
                               /\ skipped_rules[1].reason = "missing_columns"

\* a rule was skipped for an aliased parameter although a tape column
\* carries the parameter's own name
C28_Witness ==
    /\ pc = "skipped"
    /\ signature.varargs = ""
    /\ skipped_rules[1].rule = query
    /\ \E j \in 1..Len(signature.params) :
           /\ signature.params[j] \in DOMAIN _PARAM_ALIASES
           /\ plans[1].param_columns[j] = Unresolved
           /\ RawNameOnTape(signature.params[j])
           /\ ~TargetOnTape(signature.params[j])

(***************************************************************************)
(* Properties of cli.run.                                                  *)
(***************************************************************************)
\* run_validations has returned
Returned == pc \in {"done", "stamped", "reported"}

\* C21: in the returned result, the k-th detail record of every rule run
\* through apply_rule carries as row_index the zero-based position, in the
\* tape handed to run_validations, of the k-th row the rule flagged.
C21_RowIndexIsPosition ==
    Returned =>
        \A i \in 1..Len(get_validations_registry) :
            Executed(i) =>
                \A k \in 1..Len(DetailsOf(i)) :
                    DetailsOf(i)[k].row_index = FlaggedRow(i, k) - 1

\* C25: once run_validations has returned the result, no later step of the
\* command changes it.
C25_ResultNotMutatedAfterRun == [][Returned => result' = result]_vars

\* the sum of issue_count over a summary
RECURSIVE SumIssueCount(_)
SumIssueCount(summary) ==
    IF summary = <<>> THEN 0
    ELSE Head(summary).issue_count + SumIssueCount(Tail(summary))

\* C29: the totals write_report derives agree with the result: executed_rules
\* plus skipped_rules is the number of rules of the catalogue, issue_count
\* (issue records plus missing-required records) is the sum of issue_count
\* over rule_summary, and warning_count is the sum of issue_count over
\* warning_summary.
C29_ReportTotalsAgree ==
    pc = "reported" =>
        /\ report.executed_rules + report.skipped_rules
               = Len(get_validations_registry)
        /\ report.issue_count = SumIssueCount(result.rule_summary)
        /\ report.issue_count
               = Len(result.issues) + Len(result.missing_required_fields)
        /\ report.warning_count = SumIssueCount(result.warning_summary)
        /\ report.warning_count = Len(result.warnings)

\* a report was written for a result with issue records, missing-required
\* records, warning records and skipped rules
C29_Witness ==
    /\ pc = "reported"
    /\ result.issues # <<>>
    /\ result.missing_required_fields # <<>>
    /\ result.warnings # <<>>
    /\ report.issue_count > Len(result.issues)
    /\ report.warning_count >= 1
    /\ report.skipped_rules >= 1
    /\ report.executed_rules >= 3

(***************************************************************************)
(* Properties of the helpers and predicates (specification SpecRules).     *)
(***************************************************************************)
\* the text consists of whitespace only (it may be empty)
OnlyWhitespace(t) == \A k \in 1..Len(t) : IsSpace(CharAt(t, k))

\* C22: _is_blank returns True if the value is None, NaN or a text that is
\* empty once its whitespace is trimmed, it returns False for every other
\* value (0 and non-empty texts among them), and no exception leaves it.
C22_IsBlankExactly ==
    (pc = "returned" /\ query = "_is_blank") =>
        LET value == tape[1][1]
        IN  /\ answer \in {"True", "False"}
            /\ (answer = "True") =
                   \/ value = PyNone
                   \/ value = PyNaN
                   \/ (value.kind = "str" /\ OnlyWhitespace(value.s))

\* _is_blank returned True for a text of blanks
C22_Witness ==
    /\ pc = "returned"
    /\ query = "_is_blank"
    /\ tape[1][1] = Str("  ")
    /\ answer = "True"

\* the rule `name` returned for the pair of arguments
ReturnedFor(name) == pc = "returned" /\ query = name

\* the value is the whole number n, as a number or as its decimal text
IsWhole(value, n) ==
    \/ value = Num(n)
    \/ (value.kind = "str" /\ PyInt(value).ok /\ PyInt(value).n = n)

\* the loan purpose is 6 or 7
PurposeSixOrSeven(value) == IsWhole(value, 6) \/ IsWhole(value, 7)

\* C23 as stated: the rule flags exactly when the loan purpose is 6 or 7 and
\* the sales price is blank or zero, or the loan purpose is not 6 or 7 and
\* the sales price is present and nonzero.
C23_FlagsExactlyByPurpose ==
    ReturnedFor("validate_purpose_id_vs_sales_price") =>
        LET loan_purpose == tape[1][1]
            sales_price == tape[1][2]
            blank_or_zero == _is_blank(sales_price) \/ sales_price = Num(0)
        IN  (answer = "True") =
                \/ (PurposeSixOrSeven(loan_purpose) /\ blank_or_zero)
                \/ (~PurposeSixOrSeven(loan_purpose) /\ ~blank_or_zero)

\* the sales price counts as missing for the rule: "", 0, None or NaN
PriceMissing(value) == value \in {Str(""), Num(0), PyNone, PyNaN}

\* int() accepts the value: a number, or a text of digits with surrounding
\* whitespace (the texts of the rule inputs have no inner whitespace)
Integral(value) ==
    \/ value.kind = "num"
    \/ /\ value.kind = "str"
       /\ ~OnlyWhitespace(value.s)
       /\ \A k \in 1..Len(value.s) :
              IsSpace(CharAt(value.s, k)) \/ IsDigit(CharAt(value.s, k))

\* C23, amended: the rule flags exactly when the loan purpose is no integer,
\* or it is 6 or 7 and the sales price is "", 0, None or NaN, or it is
\* another integer and the sales price is none of these; for the purposes
\* 6, 9, 7 with the prices 0, 500000, 0 it returns True each time.
C23_FlagsByPurposeOrUnreadable ==
    ReturnedFor("validate_purpose_id_vs_sales_price") =>
        LET loan_purpose == tape[1][1]
            sales_price == tape[1][2]
        IN  /\ (answer = "True") =
                   \/ ~Integral(loan_purpose)
                   \/ (PurposeSixOrSeven(loan_purpose)
                          /\ PriceMissing(sales_price))
                   \/ (Integral(loan_purpose)
                          /\ ~PurposeSixOrSeven(loan_purpose)
                          /\ ~PriceMissing(sales_price))
            /\ tape[1] \in {<<Num(6), Num(0)>>, <<Num(9), Num(500000)>>,
                             <<Num(7), Num(0)>>} => answer = "True"

\* the rule returned True for purpose 9 with price 500000
C23_Witness ==
    /\ ReturnedFor("validate_purpose_id_vs_sales_price")
    /\ tape[1] = <<Num(9), Num(500000)>>
    /\ answer = "True"

\* C26: for numeric terms, validate_amort_term_gt_term_to_maturity returns
\* True exactly when the amortization term is greater than the term to
\* maturity; it returns False when the amortization term is smaller.
C26_FlagsOnlyWhenGreater ==
    ReturnedFor("validate_amort_term_gt_term_to_maturity") =>
        LET original_amortization_term == tape[1][1]
            original_term_to_maturity == tape[1][2]
        IN  (original_amortization_term.kind = "num"
             /\ original_term_to_maturity.kind = "num") =>
                (answer = "True") =
                    (original_amortization_term.n > original_term_to_maturity.n)

====
